---- MODULE Spec2Model ----
(***************************************************************************)
(* Baraka (app.py): department routing, the tiered retrieval cascade, the  *)
(* index builder, the placeholder guard, the language functions and the    *)
(* customer's chat and complaint pages.                                    *)
(*                                                                         *)
(* Texts are strings handled character by character (Len, SubSeq, \o).     *)
(* Similarity scores are fixed-point thousandths (1000 = 1.0); every       *)
(* division and square root rounds toward zero, so a modelled score never  *)
(* exceeds the real-valued one. The float64 rounding of a unit vector's    *)
(* similarity with itself is carried separately (float_above).             *)
(***************************************************************************)
EXTENDS Integers, Sequences, FiniteSets, TLC

\* ------------------------------------------------------------------------
\* CONFIG
\* ------------------------------------------------------------------------
SCALE == 1000

TOPK == 3
SIM_THRESHOLD_CUSTOM == 400
SIM_THRESHOLD_BASE == 350
SIM_THRESHOLD_ROUTE == 250

DEPARTMENTS ==
  << "ACCOUNT", "ATM", "CARD", "CONTACT", "FEES",
     "FIND", "LOAN", "PASSWORD", "TRANSFER" >>

\* dict order of the literal: department, then its exemplars
DEPT_TRAIN ==
  << << "ACCOUNT", << "open account", "create account", "close account", "account frozen",
                      "recent transactions", "bank statement", "account verification",
                      "kyc update", "check balance", "account balance" >> >>,
     << "ATM", << "atm swallowed my card", "no cash but debited", "failed withdrawal",
                  "atm reversal", "withdrawal dispute" >> >>,
     << "CARD", << "activate card", "block card", "cancel card", "card not working",
                   "international usage", "annual fee", "card balance" >> >>,
     << "CONTACT", << "customer care", "speak to agent", "human agent", "call center",
                      "contact support" >> >>,
     << "FEES", << "charges too high", "check fees", "annual charges", "fee dispute" >> >>,
     << "FIND", << "find atm", "nearest atm", "find branch", "branch near me" >> >>,
     << "LOAN", << "apply for loan", "loan repayment", "mortgage", "cancel loan",
                   "loan status", "interest rate", "borrow money" >> >>,
     << "PASSWORD", << "reset password", "forgot password", "set up password",
                       "login problem" >> >>,
     << "TRANSFER", << "cancel transfer", "make transfer", "wrong transfer",
                       "pending transfer", "reverse transaction", "send money" >> >> >>

\* dict order of the literal: department, then its keywords
DEPT_KEYWORDS ==
  << << "ATM", << "atm", "cash withdrawal", "swallowed", "debit but no cash" >> >>,
     << "CARD", << "card", "visa", "mastercard", "debit card", "credit card" >> >>,
     << "LOAN", << "loan", "mortgage", "repayment", "interest", "borrow" >> >>,
     << "TRANSFER", << "transfer", "send money", "reversal", "pending",
                       "reverse transaction" >> >>,
     << "PASSWORD", << "password", "pin reset", "forgot", "login problem" >> >>,
     << "FEES", << "fees", "charges", "annual fee", "pricing" >> >>,
     << "FIND", << "find atm", "branch", "nearest atm", "locator" >> >>,
     << "CONTACT", << "agent", "customer care", "call center", "contact support" >> >>,
     << "ACCOUNT", << "account", "statement", "transactions", "close account",
                      "balance" >> >> >>

\* ------------------------------------------------------------------------
\* Characters and strings (str.lower, str.strip, \s, \w)
\* ------------------------------------------------------------------------
UPPER == "ABCDEFGHIJKLMNOPQRSTUVWXYZ"
LOWER == "abcdefghijklmnopqrstuvwxyz"
DIGITS == "0123456789"

CharsOf(s) == { SubSeq(s, i, i) : i \in 1..Len(s) }

SPACE_CHARS == { " ", "\t", "\n" }
WORD_CHARS == CharsOf(UPPER) \cup CharsOf(LOWER) \cup CharsOf(DIGITS) \cup { "_" }

IsSpace(c) == c \in SPACE_CHARS
IsWordChar(c) == c \in WORD_CHARS

LowerChar(c) ==
  IF \E i \in 1..Len(UPPER) : SubSeq(UPPER, i, i) = c
    THEN LET i == CHOOSE k \in 1..Len(UPPER) : SubSeq(UPPER, k, k) = c
         IN SubSeq(LOWER, i, i)
    ELSE c

RECURSIVE LowerFrom(_, _)
LowerFrom(s, i) ==
  IF i > Len(s) THEN "" ELSE LowerChar(SubSeq(s, i, i)) \o LowerFrom(s, i + 1)

\* str.lower()
Lower(s) == LowerFrom(s, 1)

RECURSIVE FirstNonSpace(_, _)
FirstNonSpace(s, i) ==
  IF i > Len(s) \/ ~IsSpace(SubSeq(s, i, i)) THEN i ELSE FirstNonSpace(s, i + 1)

RECURSIVE LastNonSpace(_, _)
LastNonSpace(s, i) ==
  IF i < 1 \/ ~IsSpace(SubSeq(s, i, i)) THEN i ELSE LastNonSpace(s, i - 1)

\* str.strip()
Strip(s) ==
  LET a == FirstNonSpace(s, 1)
      b == LastNonSpace(s, Len(s))
  IN IF a > b THEN "" ELSE SubSeq(s, a, b)

RECURSIVE CollapseFrom(_, _, _)
CollapseFrom(s, i, inSpace) ==
  IF i > Len(s) THEN ""
  ELSE LET c == SubSeq(s, i, i)
       IN IF IsSpace(c)
            THEN (IF inSpace THEN "" ELSE " ") \o CollapseFrom(s, i + 1, TRUE)
            ELSE c \o CollapseFrom(s, i + 1, FALSE)

\* re.sub(r"\s+", " ", text)
CollapseSpaces(s) == CollapseFrom(s, 1, FALSE)

\* kw in t
Contains(t, kw) ==
  \E i \in 1..(Len(t) - Len(kw) + 1) : SubSeq(t, i, i + Len(kw) - 1) = kw

\* variant of normalize that leaves runs of whitespace as they are
normalize_no_collapse(text) == Strip(Lower(text))

\* normalize(text): lower(), strip(), then runs of whitespace become one space
normalize(text) == CollapseSpaces(Strip(Lower(text)))

\* ------------------------------------------------------------------------
\* TfidfVectorizer(ngram_range=(1, 2), min_df, stop_words) and
\* cosine_similarity, in fixed point
\* ------------------------------------------------------------------------
Range(f) == { f[i] : i \in DOMAIN f }

\* the function f with every value computed (an array rather than a formula)
Materialize(f) == f @@ << >>

RECURSIVE SumOver(_, _)
SumOver(f, S) ==
  IF S = {} THEN 0
  ELSE LET x == CHOOSE y \in S : TRUE IN f[x] + SumOver(f, S \ {x})

RECURSIVE SqrtIter(_, _)
SqrtIter(n, r) ==
  LET r2 == (r + n \div r) \div 2 IN IF r2 >= r THEN r ELSE SqrtIter(n, r2)

\* floor of the square root (Newton's iteration)
FloorSqrt(n) == IF n < 2 THEN n ELSE SqrtIter(n, n)

CeilSqrt(n) == LET r == FloorSqrt(n) IN IF r * r = n THEN r ELSE r + 1

\* natural logarithm of 1..60 in thousandths
LN_TABLE ==
  << 0, 693, 1099, 1386, 1609, 1792, 1946, 2079, 2197, 2303,
     2398, 2485, 2565, 2639, 2708, 2773, 2833, 2890, 2944, 2996,
     3045, 3091, 3135, 3178, 3219, 3258, 3296, 3332, 3367, 3401,
     3434, 3466, 3497, 3526, 3555, 3584, 3611, 3638, 3664, 3689,
     3714, 3738, 3761, 3784, 3807, 3829, 3850, 3871, 3892, 3912,
     3932, 3951, 3970, 3989, 4007, 4025, 4043, 4060, 4078, 4094 >>

\* smooth idf: ln((1 + n) / (1 + df)) + 1
Idf(n, df) == LN_TABLE[1 + n] - LN_TABLE[1 + df] + SCALE

\* stop_words="english" (the library's list)
ENGLISH_STOP_WORDS ==
  { "a", "about", "above", "across", "after", "afterwards", "again", "against",
    "all", "almost", "alone", "along", "already", "also", "although", "always",
    "am", "among", "amongst", "amoungst", "amount", "an", "and", "another",
    "any", "anyhow", "anyone", "anything", "anyway", "anywhere", "are",
    "around", "as", "at", "back", "be", "became", "because", "become",
    "becomes", "becoming", "been", "before", "beforehand", "behind", "being",
    "below", "beside", "besides", "between", "beyond", "bill", "both",
    "bottom", "but", "by", "call", "can", "cannot", "cant", "co", "con",
    "could", "couldnt", "cry", "de", "describe", "detail", "do", "done",
    "down", "due", "during", "each", "eg", "eight", "either", "eleven", "else",
    "elsewhere", "empty", "enough", "etc", "even", "ever", "every", "everyone",
    "everything", "everywhere", "except", "few", "fifteen", "fifty", "fill",
    "find", "fire", "first", "five", "for", "former", "formerly", "forty",
    "found", "four", "from", "front", "full", "further", "get", "give", "go",
    "had", "has", "hasnt", "have", "he", "hence", "her", "here", "hereafter",
    "hereby", "herein", "hereupon", "hers", "herself", "him", "himself", "his",
    "how", "however", "hundred", "i", "ie", "if", "in", "inc", "indeed",
    "interest", "into", "is", "it", "its", "itself", "keep", "last", "latter",
    "latterly", "least", "less", "ltd", "made", "many", "may", "me",
    "meanwhile", "might", "mill", "mine", "more", "moreover", "most", "mostly",
    "move", "much", "must", "my", "myself", "name", "namely", "neither",
    "never", "nevertheless", "next", "nine", "no", "nobody", "none", "noone",
    "nor", "not", "nothing", "now", "nowhere", "of", "off", "often", "on",
    "once", "one", "only", "onto", "or", "other", "others", "otherwise", "our",
    "ours", "ourselves", "out", "over", "own", "part", "per", "perhaps",
    "please", "put", "rather", "re", "same", "see", "seem", "seemed",
    "seeming", "seems", "serious", "several", "she", "should", "show", "side",
    "since", "sincere", "six", "sixty", "so", "some", "somehow", "someone",
    "something", "sometime", "sometimes", "somewhere", "still", "such",
    "system", "take", "ten", "than", "that", "the", "their", "them",
    "themselves", "then", "thence", "there", "thereafter", "thereby",
    "therefore", "therein", "thereupon", "these", "they", "thick", "thin",
    "third", "this", "those", "though", "three", "through", "throughout",
    "thru", "thus", "to", "together", "too", "top", "toward", "towards",
    "twelve", "twenty", "two", "un", "under", "until", "up", "upon", "us",
    "very", "via", "was", "we", "well", "were", "what", "whatever", "when",
    "whence", "whenever", "where", "whereafter", "whereas", "whereby",
    "wherein", "whereupon", "wherever", "whether", "which", "while", "whither",
    "who", "whoever", "whole", "whom", "whose", "why", "will", "with",
    "within", "without", "would", "yet", "you", "your", "yours", "yourself",
    "yourselves" }

RECURSIVE Scan(_, _, _, _)
Scan(s, i, cur, acc) ==
  LET done == IF Len(cur) >= 2 THEN Append(acc, cur) ELSE acc
  IN IF i > Len(s) THEN done
     ELSE LET c == SubSeq(s, i, i)
          IN IF IsWordChar(c)
               THEN Scan(s, i + 1, cur \o LowerChar(c), acc)
               ELSE Scan(s, i + 1, "", done)

\* lowercase, then token_pattern (?u)\b\w\w+\b: maximal runs of two or more word characters
Tokens(s) == Scan(s, 1, "", << >>)

\* the analyzer: tokens, stop words removed, then unigrams followed by bigrams
Analyzer(s, stop) ==
  LET toks == Tokens(s)
      kept == IF stop THEN SelectSeq(toks, LAMBDA w : w \notin ENGLISH_STOP_WORDS) ELSE toks
      bigrams == [ i \in 1..(IF Len(kept) = 0 THEN 0 ELSE Len(kept) - 1)
                   |-> kept[i] \o " " \o kept[i + 1] ]
  IN kept \o bigrams

Count(seq, t) == Cardinality({ i \in 1..Len(seq) : seq[i] = t })

SumSq(v) == SumOver([ t \in DOMAIN v |-> v[t] * v[t] ], DOMAIN v)

\* row-wise l2 normalisation; a zero row stays zero
L2Normalize(v) ==
  LET s == SumSq(v)
  IN IF s = 0 THEN v
     ELSE LET nrm == CeilSqrt(s)
          IN Materialize([ t \in DOMAIN v |-> (v[t] * SCALE) \div nrm ])

\* no value (Python's None); it stands for itself wherever a str is expected, and
\* no text of the model reads "None"
None == "None"

\* isinstance(t, str)
IsStr(t) == t # None

\* texts = [t for t in texts if isinstance(t, str) and t.strip()]
NonBlank(texts) == SelectSeq(texts, LAMBDA t : IsStr(t) /\ Strip(t) # "")

\* stop_words="english" unless fewer than 3 texts remain
UseStopWords(n) == n >= 3

\* min_df=1 for fewer than 3 texts, else min_df=2
MinDf(n) == IF n < 3 THEN 1 ELSE 2

\* one row of the sparse document-term matrix: the weights of the terms that occur
TfidfRow(doc, vocab, idf) ==
  L2Normalize(Materialize([ t \in { u \in vocab : Count(doc, u) > 0 } |-> Count(doc, t) * idf[t] ]))

\* build_vector_index: ok = FALSE stands for the ValueError of fit_transform
\* (empty vocabulary, or no term left after pruning by min_df)
build_vector_index(texts0) ==
  LET texts == NonBlank(texts0)
      n == Len(texts)
      stop == UseStopWords(n)
      docs == Materialize([ i \in 1..n |-> Analyzer(texts[i], stop) ])
      terms == UNION { Range(docs[i]) : i \in 1..n }
      df == Materialize([ t \in terms |-> Cardinality({ i \in 1..n : Count(docs[i], t) > 0 }) ])
      vocab == { t \in terms : df[t] >= MinDf(n) }
      idf == Materialize([ t \in vocab |-> Idf(n, df[t]) ])
  IN IF vocab = {}
       THEN [ ok |-> FALSE ]
       ELSE [ ok |-> TRUE, stop |-> stop, vocab |-> vocab, idf |-> idf,
              X |-> Materialize([ i \in 1..n |-> TfidfRow(docs[i], vocab, idf) ]) ]

\* vec.transform([q])
Transform(index, q) == TfidfRow(Analyzer(q, index.stop), index.vocab, index.idf)

Dot(a, b) ==
  LET common == DOMAIN a \cap DOMAIN b
  IN SumOver([ t \in common |-> a[t] * b[t] ], common)

\* The similarities are float64. Thousandths cannot express how the last bit of a
\* result is rounded, which shows in one place: the dot product of a unit vector of
\* two or more terms with itself is 1.0 to within the rounding, and comes out as the
\* next double above 1.0 for some operands (two equal weights: the unit vector is
\* (0.7071067811865476, 0.7071067811865476) and 2 * 0.7071067811865476^2 is
\* 1.0000000000000002). float_above says whether it does; it belongs to the
\* arithmetic and never changes.
VARIABLE float_above

\* stands for a double just above 1.0
ABOVE_ONE == SCALE + 1

\* the similarity of a unit vector with itself
SelfSimilarity(v) ==
  IF Cardinality(DOMAIN v) >= 2 /\ float_above THEN ABOVE_ONE ELSE SCALE

\* cosine_similarity(qv, X).flatten(): both sides are normalised again
cosine_similarity(qv, X) ==
  LET q == L2Normalize(qv)
  IN Materialize([ i \in 1..Len(X) |->
       LET x == L2Normalize(X[i])
       IN IF DOMAIN q # {} /\ DOMAIN q = DOMAIN x /\ q = x
            THEN SelfSimilarity(q)
            ELSE Dot(q, x) \div SCALE ])

\* variant of ArgMax that takes the last position of the maximum
ArgMaxLast(sims) ==
  CHOOSE i \in 1..Len(sims) :
    /\ \A j \in 1..Len(sims) : sims[j] <= sims[i]
    /\ \A j \in (i + 1)..Len(sims) : sims[j] < sims[i]

\* sims.argmax(): the first position of the maximum
ArgMax(sims) ==
  CHOOSE i \in 1..Len(sims) :
    /\ \A j \in 1..Len(sims) : sims[j] <= sims[i]
    /\ \A j \in 1..(i - 1) : sims[j] < sims[i]

\* ------------------------------------------------------------------------
\* ROUTING
\* ------------------------------------------------------------------------
RECURSIVE Flatten(_)
Flatten(ss) == IF ss = << >> THEN << >> ELSE Head(ss) \o Flatten(Tail(ss))

\* dept_texts and dept_labels, in the order of the nested loops
dept_texts == Flatten([ d \in 1..Len(DEPT_TRAIN) |-> DEPT_TRAIN[d][2] ])
dept_labels ==
  Flatten([ d \in 1..Len(DEPT_TRAIN)
            |-> [ s \in 1..Len(DEPT_TRAIN[d][2]) |-> DEPT_TRAIN[d][1] ] ])

\* build_dept_router(): the fitted reference index and its labels
build_dept_router == [ index |-> build_vector_index(dept_texts), labels |-> dept_labels ]

\* the rule stage: positions of the departments one of whose keywords occurs in t
RuleMatches(t) ==
  { d \in 1..Len(DEPT_KEYWORDS) :
      \E k \in 1..Len(DEPT_KEYWORDS[d][2]) : Contains(t, DEPT_KEYWORDS[d][2][k]) }

\* for dept, kws in DEPT_KEYWORDS.items(): the first department that matches
RuleDept(t) ==
  LET m == RuleMatches(t)
  IN DEPT_KEYWORDS[CHOOSE d \in m : \A e \in m : d <= e][1]

\* the vector stage on the router `r`
VectorStage(t, r) ==
  LET tv == Transform(r.index, t)
      sims == cosine_similarity(tv, r.index.X)
      best_idx == ArgMax(sims)
      best_dept == r.labels[best_idx]
      best_score == sims[best_idx]
  IN IF best_score < SIM_THRESHOLD_ROUTE
       THEN << "CONTACT", best_score, "tfidf_lowconf" >>
       ELSE << best_dept, best_score, "tfidf" >>

\* route_department(text_en) with the router `r` that build_dept_router() returns
route_department(text_en, r) ==
  LET t == normalize(text_en)
  IN IF RuleMatches(t) # {}
       THEN << RuleDept(t), SCALE, "rule" >>
       ELSE VectorStage(t, r)

\* ------------------------------------------------------------------------
\* PLACEHOLDER PROTECTION
\* ------------------------------------------------------------------------
RECURSIVE ToStr(_)
\* str(n) for n >= 0
ToStr(n) ==
  IF n < 10 THEN SubSeq(DIGITS, n + 1, n + 1)
  ELSE ToStr(n \div 10) \o SubSeq(DIGITS, (n % 10) + 1, (n % 10) + 1)

RECURSIVE FirstOf(_, _, _)
\* the first position >= i of a character of `stops`, or Len(s) + 1
FirstOf(s, i, stops) ==
  IF i > Len(s) \/ SubSeq(s, i, i) \in stops THEN i ELSE FirstOf(s, i + 1, stops)

\* _PLACEHOLDER_RE matched at position i: the length of the match, 0 if none.
\* Alternatives in order: {{...}}, {...}, <...>
PlaceholderAt(s, i) ==
  LET c == SubSeq(s, i, i)
      j2 == FirstOf(s, i + 2, { "{", "}" })
      j1 == FirstOf(s, i + 1, { "{", "}" })
      ja == FirstOf(s, i + 1, { "<", ">" })
  IN IF c = "{" /\ SubSeq(s, i, i + 1) = "{{" /\ j2 + 1 <= Len(s) /\ SubSeq(s, j2, j2 + 1) = "}}"
       THEN j2 + 2 - i
     ELSE IF c = "{" /\ j1 <= Len(s) /\ SubSeq(s, j1, j1) = "}"
       THEN j1 + 1 - i
     ELSE IF c = "<" /\ ja <= Len(s) /\ SubSeq(s, ja, ja) = ">"
       THEN ja + 1 - i
     ELSE 0

\* the first position >= i where _PLACEHOLDER_RE matches, or Len(s) + 1
NextPlaceholder(s, i) ==
  LET at == { j \in i..Len(s) : PlaceholderAt(s, j) > 0 }
  IN IF at = {} THEN Len(s) + 1 ELSE CHOOSE j \in at : \A e \in at : j <= e

RECURSIVE ProtectFrom(_, _, _, _)
\* _PLACEHOLDER_RE.sub(repl, text) from position i on: text between matches is
\* copied, each match gives way to the key that repl mints for it
ProtectFrom(s, i, out, mapping) ==
  LET j == NextPlaceholder(s, i)
  IN IF j > Len(s) THEN << out \o SubSeq(s, i, Len(s)), mapping >>
     ELSE LET m == PlaceholderAt(s, j)
              key == "@@PH" \o ToStr(Len(mapping)) \o "@@"
          IN ProtectFrom(s, j + m, out \o SubSeq(s, i, j - 1) \o key,
                         Append(mapping, << key, SubSeq(s, j, j + m - 1) >>))

\* protect_placeholders(text): the guarded text and the mapping, as (key, original)
\* pairs in insertion order
protect_placeholders(text) == ProtectFrom(text, 1, "", << >>)

\* the first position >= i where k occurs in s, or Len(s) + 1
NextOccurrence(s, i, k) ==
  LET at == { j \in i..(Len(s) - Len(k) + 1) : SubSeq(s, j, j + Len(k) - 1) = k }
  IN IF at = {} THEN Len(s) + 1 ELSE CHOOSE j \in at : \A e \in at : j <= e

RECURSIVE ReplaceFrom(_, _, _, _)
\* the occurrences of k from position i on, left to right and not overlapping
ReplaceFrom(s, i, k, v) ==
  LET j == NextOccurrence(s, i, k)
  IN IF j > Len(s) THEN SubSeq(s, i, Len(s))
     ELSE SubSeq(s, i, j - 1) \o v \o ReplaceFrom(s, j + Len(k), k, v)

\* str.replace(k, v) for a non-empty k
Replace(s, k, v) == ReplaceFrom(s, 1, k, v)

RECURSIVE InsertByLen(_, _)
\* stable insertion into a list sorted by decreasing key length
InsertByLen(sorted, e) ==
  IF sorted = << >> THEN << e >>
  ELSE IF Len(Head(sorted)[1]) >= Len(e[1])
    THEN << Head(sorted) >> \o InsertByLen(Tail(sorted), e)
    ELSE << e >> \o sorted

RECURSIVE SortByLen(_, _)
SortByLen(mapping, i) ==
  IF i = 0 THEN << >> ELSE InsertByLen(SortByLen(mapping, i - 1), mapping[i])

RECURSIVE RestoreWith(_, _)
RestoreWith(out, keys) ==
  IF keys = << >> THEN out
  ELSE RestoreWith(Replace(out, Head(keys)[1], Head(keys)[2]), Tail(keys))

\* restore_placeholders(text, mapping): keys by decreasing length (sorted is stable)
restore_placeholders(text, mapping) == RestoreWith(text, SortByLen(mapping, Len(mapping)))

\* ------------------------------------------------------------------------
\* The generative-text collaborator (client.responses.create)
\* ------------------------------------------------------------------------
\* what one request can come back with: an exception, output_text None, or a text
RESPONSES == { "error", "none", "fixed" }

FIXED_TEXT == "Tafadhali tembelea tawi. "

\* (resp.output_text or "") of a request that did not raise
OutputText(resp) ==
  IF resp = "none" THEN "" ELSE FIXED_TEXT

\* variant of get_openai_client that builds a client without looking at the key
get_openai_client_keyless(key, construct_ok) == construct_ok

\* get_openai_client(): None without a key or when the client cannot be built
get_openai_client(key, construct_ok) == key /\ construct_ok

\* variant of translate_from_english that sends English answers to the collaborator
\* like any other
translate_from_english_always(text_en, target_lang, client, resp) ==
  IF ~client THEN [ text |-> text_en, requests |-> << >> ]
  ELSE LET p == protect_placeholders(text_en)
       IN IF resp = "error"
            THEN [ text |-> text_en, requests |-> << "translate" >> ]
            ELSE [ text |-> restore_placeholders(Strip(OutputText(resp)), p[2]),
                   requests |-> << "translate" >> ]

\* variant of translate_from_english that asks once more when its request fails
translate_from_english_retrying(text_en, target_lang, client, resp) ==
  IF target_lang = "en" THEN [ text |-> text_en, requests |-> << >> ]
  ELSE IF ~client THEN [ text |-> text_en, requests |-> << >> ]
  ELSE LET p == protect_placeholders(text_en)
       IN IF resp = "error"
            THEN [ text |-> text_en, requests |-> << "translate", "translate" >> ]
            ELSE [ text |-> restore_placeholders(Strip(OutputText(resp)), p[2]),
                   requests |-> << "translate" >> ]

\* translate_from_english(text_en, target_lang), given the client and the response
\* its one request would get; `requests` lists the requests issued
translate_from_english(text_en, target_lang, client, resp) ==
  IF target_lang = "en" THEN [ text |-> text_en, requests |-> << >> ]
  ELSE IF ~client THEN [ text |-> text_en, requests |-> << >> ]
  ELSE LET p == protect_placeholders(text_en)
       IN IF resp = "error"
            THEN [ text |-> text_en, requests |-> << "translate" >> ]
            ELSE [ text |-> restore_placeholders(Strip(OutputText(resp)), p[2]),
                   requests |-> << "translate" >> ]

\* ------------------------------------------------------------------------
\* json.loads, on documents without escapes or nesting
\* ------------------------------------------------------------------------
\* k occurs in s at position i
StartsAt(s, i, k) ==
  i >= 1 /\ i + Len(k) - 1 <= Len(s) /\ SubSeq(s, i, i + Len(k) - 1) = k

RECURSIVE DigitsEnd(_, _)
\* the first position >= i that holds no digit
DigitsEnd(s, i) ==
  IF i > Len(s) \/ SubSeq(s, i, i) \notin CharsOf(DIGITS) THEN i ELSE DigitsEnd(s, i + 1)

JsonError == [ kind |-> "error" ]

\* the scalar that starts at position i: a string, a number, null, true or false
JsonScalarAt(s, i) ==
  LET q == FirstOf(s, i + 1, { "\"" })
      d == DigitsEnd(s, i)
  IN IF StartsAt(s, i, "\"")
       THEN IF q <= Len(s)
              THEN [ kind |-> "str", v |-> SubSeq(s, i + 1, q - 1), next |-> q + 1 ]
              ELSE JsonError
     ELSE IF d > i THEN [ kind |-> "num", v |-> SubSeq(s, i, d - 1), next |-> d ]
     ELSE IF StartsAt(s, i, "null") THEN [ kind |-> "null", next |-> i + 4 ]
     ELSE IF StartsAt(s, i, "true") THEN [ kind |-> "true", next |-> i + 4 ]
     ELSE IF StartsAt(s, i, "false") THEN [ kind |-> "false", next |-> i + 5 ]
     ELSE JsonError

RECURSIVE JsonMembers(_, _, _)
\* the members of an object from position i (after "{" or ","), up to its "}" and
\* the end of the document
JsonMembers(s, i, members) ==
  LET k == JsonScalarAt(s, FirstNonSpace(s, i))
      colon == IF k.kind = "str" THEN FirstNonSpace(s, k.next) ELSE 0
      v == IF k.kind = "str" /\ StartsAt(s, colon, ":")
             THEN JsonScalarAt(s, FirstNonSpace(s, colon + 1)) ELSE JsonError
      after == IF v.kind # "error" THEN FirstNonSpace(s, v.next) ELSE 0
      more == Append(members, << k.v, v >>)
  IN IF v.kind = "error" THEN JsonError
     ELSE IF StartsAt(s, after, ",") THEN JsonMembers(s, after + 1, more)
     ELSE IF StartsAt(s, after, "}") /\ FirstNonSpace(s, after + 1) > Len(s)
       THEN [ kind |-> "object", members |-> more ]
     ELSE JsonError

\* json.loads(raw): an object with its members in document order, another JSON value,
\* or JSONDecodeError
JsonLoads(raw) ==
  LET a == FirstNonSpace(raw, 1)
      b == LastNonSpace(raw, Len(raw))
      open == FirstNonSpace(raw, a + 1)
      v == JsonScalarAt(raw, a)
  IN IF a > Len(raw) THEN JsonError
     ELSE IF StartsAt(raw, a, "{")
       THEN IF StartsAt(raw, open, "}")
              THEN IF open = b THEN [ kind |-> "object", members |-> << >> ] ELSE JsonError
              ELSE JsonMembers(raw, a + 1, << >>)
     ELSE IF StartsAt(raw, a, "[")
       THEN IF StartsAt(raw, b, "]") /\ a < b THEN [ kind |-> "list" ] ELSE JsonError
     ELSE IF v.kind # "error" /\ v.next = b + 1 THEN v
     ELSE JsonError

RECURSIVE DictGet(_, _, _)
\* data.get(key, default): of members with the same key the last one counts
DictGet(members, key, default) ==
  IF members = << >> THEN default
  ELSE LET m == members[Len(members)]
       IN IF m[1] = key THEN m[2]
          ELSE DictGet(SubSeq(members, 1, Len(members) - 1), key, default)

\* str(value) of a parsed scalar
PyStr(value) ==
  CASE value.kind \in { "str", "num" } -> value.v
    [] value.kind = "null" -> "None"
    [] value.kind = "true" -> "True"
    [] value.kind = "false" -> "False"

\* ------------------------------------------------------------------------
\* LANGUAGE: detect + translate to English
\* ------------------------------------------------------------------------
LANG_CODES == { "en", "sw", "am", "so", "ar" }

\* what the detect-and-translate request can come back with: an exception
\* ([kind |-> "error"]), output_text None ([kind |-> "none"]) or a text
\* ([kind |-> "text", text |-> ...])
DetectOutput(resp) == IF resp.kind = "text" THEN resp.text ELSE ""

\* variant of detect_and_translate_to_english that passes the response's lang through
detect_and_translate_to_english_unchecked(user_text, client, resp) ==
  IF ~client THEN [ lang |-> "en", english |-> user_text, requests |-> << >> ]
  ELSE LET p == protect_placeholders(user_text)
           data == JsonLoads(Strip(DetectOutput(resp)))
       IN IF resp.kind = "error" \/ data.kind # "object"
            THEN [ lang |-> "en", english |-> user_text, requests |-> << "detect" >> ]
            ELSE [ lang |-> Lower(Strip(PyStr(DictGet(data.members, "lang",
                                                      [ kind |-> "str", v |-> "en" ])))),
                   english |-> restore_placeholders(
                                 PyStr(DictGet(data.members, "english",
                                               [ kind |-> "str", v |-> p[1] ])), p[2]),
                   requests |-> << "detect" >> ]

\* detect_and_translate_to_english(user_text), given the client and the response its
\* one request would get; `requests` lists the requests issued. Whatever is raised
\* between lines 549 and 567 ends in the except branch
detect_and_translate_to_english(user_text, client, resp) ==
  IF ~client THEN [ lang |-> "en", english |-> user_text, requests |-> << >> ]
  ELSE LET p == protect_placeholders(user_text)
           protected == p[1]
           mapping == p[2]
           degraded == [ lang |-> "en", english |-> user_text,
                         requests |-> << "detect" >> ]
       IN IF resp.kind = "error" THEN degraded
          ELSE LET raw == Strip(DetectOutput(resp))
                   data == JsonLoads(raw)
               IN IF data.kind = "error" THEN degraded
                  ELSE IF data.kind # "object" THEN degraded
                  ELSE LET lang == Lower(Strip(PyStr(DictGet(data.members, "lang",
                                                   [ kind |-> "str", v |-> "en" ]))))
                           eng == PyStr(DictGet(data.members, "english",
                                                [ kind |-> "str", v |-> protected ]))
                       IN [ lang |-> IF lang \notin LANG_CODES THEN "en" ELSE lang,
                            english |-> restore_placeholders(eng, mapping),
                            requests |-> << "detect" >> ]

\* ------------------------------------------------------------------------
\* LANGUAGE: explicit commands
\* ------------------------------------------------------------------------
\* Text in Ethiopic or Arabic script is written in Latin letters between tildes; like
\* the script it stands for, it has no upper case. The second Arabic form occurs
\* inside the first, as it does in the source
AMHARIC_WORD == "~amarinya~"
ARABIC_WORD == "~arabi~"
ARABIC_NAME == "~al" \o ARABIC_WORD \o "ya~"


\* the acknowledgement of each language, with dashes in ASCII
COMMAND_ACK ==
  [ sw |-> "Sawa--nitajibu kwa Kiswahili kuanzia sasa.",
    am |-> "~ishi -- keahun behuala beamarinya emelisalehu~",
    so |-> "Haye--laga bilaabo hadda waxaan ku jawaabi doonaa Af-Soomaali.",
    ar |-> "~hasanan -- saujib bialarabiya min alan fasaidan~",
    en |-> "Okay--I'll reply in English from now on." ]

Command(code) == [ handled |-> TRUE, msg |-> COMMAND_ACK[code], forced |-> code ]
NoCommand == [ handled |-> FALSE, msg |-> None, forced |-> None ]

\* variant of handle_language_command that looks for 'english' first
handle_language_command_english_first(user_text) ==
  LET t == Lower(Strip(user_text))
  IN IF t = "" THEN NoCommand
     ELSE IF Contains(t, "english") THEN Command("en")
     ELSE IF Contains(t, "kiswahili") \/ Contains(t, "swahili") THEN Command("sw")
     ELSE IF Contains(t, "amharic") \/ Contains(user_text, AMHARIC_WORD) THEN Command("am")
     ELSE IF Contains(t, "somali") \/ Contains(t, "soomaali") THEN Command("so")
     ELSE IF Contains(t, "arabic") \/ Contains(user_text, ARABIC_NAME)
             \/ Contains(user_text, ARABIC_WORD) THEN Command("ar")
     ELSE NoCommand

\* handle_language_command(user_text): (handled, msg, forced)
handle_language_command(user_text) ==
  LET t == Lower(Strip(user_text))
  IN IF t = "" THEN NoCommand
     ELSE IF Contains(t, "kiswahili") \/ Contains(t, "swahili") THEN Command("sw")
     ELSE IF Contains(t, "amharic") \/ Contains(user_text, AMHARIC_WORD) THEN Command("am")
     ELSE IF Contains(t, "somali") \/ Contains(t, "soomaali") THEN Command("so")
     ELSE IF Contains(t, "arabic") \/ Contains(user_text, ARABIC_NAME)
             \/ Contains(user_text, ARABIC_WORD) THEN Command("ar")
     ELSE IF Contains(t, "english") THEN Command("en")
     ELSE NoCommand

NOT_CONFIDENT == "I'm not fully confident yet. Please rephrase or add more detail."
FALLBACK_UNAVAILABLE == "AI fallback is unavailable right now. I'll answer using SACCO FAQs."

RECURSIVE Join(_, _)
\* sep.join(parts)
Join(parts, sep) ==
  IF parts = << >> THEN ""
  ELSE IF Len(parts) = 1 THEN parts[1]
  ELSE parts[1] \o sep \o Join(Tail(parts), sep)

\* variant of openai_fallback whose except branch keeps the tag of the try branch
openai_fallback_mistagged(query_en, context_snippets, out_lang, client, resp) ==
  IF ~client
    THEN [ ans |-> NOT_CONFIDENT, score |-> 0, source |-> "fallback", requests |-> << >> ]
  ELSE IF resp = "error"
    THEN [ ans |-> FALLBACK_UNAVAILABLE, score |-> 0, source |-> "openai",
           requests |-> << "answer" >> ]
    ELSE [ ans |-> Strip(OutputText(resp)), score |-> 0, source |-> "openai",
           requests |-> << "answer" >> ]

\* openai_fallback(query_en, context_snippets, out_lang)
openai_fallback(query_en, context_snippets, out_lang, client, resp) ==
  IF ~client
    THEN [ ans |-> NOT_CONFIDENT, score |-> 0, source |-> "fallback", requests |-> << >> ]
  ELSE LET user == "Customer question (English): " \o query_en
                   \o "\n\nContext (FAQ snippets, English):\n"
                   \o Join(context_snippets, "\n---\n")
       IN IF resp = "error"
            THEN [ ans |-> FALLBACK_UNAVAILABLE, score |-> 0, source |-> "fallback",
                   requests |-> << "answer" >> ]
            ELSE [ ans |-> Strip(OutputText(resp)), score |-> 0, source |-> "openai",
                   requests |-> << "answer" >> ]

\* ------------------------------------------------------------------------
\* RETRIEVAL
\* ------------------------------------------------------------------------
\* fetch_custom_faqs(department): the table is kept in ORDER BY updated_at DESC
fetch_custom_faqs(faqs, department) ==
  IF department # "" /\ department # "ALL"
    THEN SelectSeq(faqs, LAMBDA r : r.department = department)
    ELSE faqs

Column(df, col) == [ i \in 1..Len(df) |-> df[i][col] ]

\* sims.argsort()[::-1]: the orders that sort by decreasing similarity; the order of
\* equal similarities is left to the sort
SortOrders(sims) ==
  LET n == Len(sims)
  IN { p \in [ 1..n -> 1..n ] :
         /\ \A i, j \in 1..n : i # j => p[i] # p[j]
         /\ \A i \in 1..(n - 1) : sims[p[i]] >= sims[p[i + 1]] }

Min(a, b) == IF a < b THEN a ELSE b

\* retrieve_best(query_en, faq_df, vec, X, topk): the possible results, each a list
\* of rows of faq_df (taken by position) with their scores
retrieve_best(query_en, faq_df, index, topk) ==
  LET qn == normalize(query_en)
      sims == cosine_similarity(Transform(index, qn), index.X)
  IN { [ k \in 1..Min(topk, Len(sims)) |-> [ row |-> faq_df[p[k]], score |-> sims[p[k]] ] ]
       : p \in SortOrders(sims) }

NoHit == [ kind |-> "none" ]
Raised == [ kind |-> "raise" ]
Hit(ans, score, source) == [ kind |-> "hit", ans |-> ans, score |-> score, source |-> source ]

\* answer_from_custom_first from the index on: retrieve_best over custom_df, then
\* the threshold on the best row
CustomOutcomes(query_en, custom_df, index) ==
  IF ~index.ok THEN { Raised }
  ELSE { IF res[1].score >= SIM_THRESHOLD_CUSTOM
           THEN Hit(res[1].row.answer, res[1].score, "custom")
           ELSE NoHit
         : res \in retrieve_best(query_en, custom_df, index, TOPK) }

\* answer_from_custom_first(query_en, dept): the possible outcomes
answer_from_custom_first(query_en, dept, faqs) ==
  LET custom_df == fetch_custom_faqs(faqs, dept)
      questions == NonBlank(Column(custom_df, "question"))
  IN IF custom_df = << >> THEN { NoHit }
     ELSE IF questions = << >> THEN { NoHit }
     ELSE CustomOutcomes(query_en, custom_df, build_vector_index(questions))

\* variant of CacheKey that tells corpora apart by their size only
CacheKeyBySize(texts) == Len(texts)

\* @st.cache_resource on build_vector_index: the key of a call is its argument, the
\* list of texts, hashed by content
CacheKey(texts) == texts

IsCached(cache, texts) == \E e \in cache : e.key = CacheKey(texts)

\* the texts that the index handed out for `texts` was fitted on: those of the entry
\* with the key of `texts`, or `texts` themselves when there is none
FittedOn(cache, texts) ==
  IF IsCached(cache, texts)
    THEN (CHOOSE e \in cache : e.key = CacheKey(texts)).texts
    ELSE texts

\* the cache after the call: the value of a call that returns is stored, an
\* exception is not
CacheAfter(cache, texts) ==
  IF IsCached(cache, texts) \/ ~build_vector_index(texts).ok THEN cache
  ELSE cache \cup { [ key |-> CacheKey(texts), texts |-> texts ] }

\* answer_from_custom_first(query_en, dept) with the cache of build_vector_index:
\* whether the index was asked for, the texts it was fitted on, the cache afterwards
\* and the possible outcomes
answer_from_custom_first_cached(query_en, dept, faqs, cache) ==
  LET custom_df == fetch_custom_faqs(faqs, dept)
      questions == NonBlank(Column(custom_df, "question"))
  IN IF custom_df = << >> \/ questions = << >>
       THEN [ built |-> FALSE, cache |-> cache, outcomes |-> { NoHit } ]
       ELSE LET fitted == FittedOn(cache, questions)
            IN [ built |-> TRUE, reused |-> IsCached(cache, questions),
                 questions |-> questions, fitted |-> fitted,
                 cache |-> CacheAfter(cache, questions),
                 outcomes |-> CustomOutcomes(query_en, custom_df,
                                             build_vector_index(fitted)) ]

\* variant of answer_from_base that searches the whole base dataset whatever the
\* department
answer_from_base_unscoped(query_en, dept, base) ==
  LET index == build_vector_index(Column(base, "question"))
  IN IF ~index.ok THEN { Raised }
     ELSE { IF res[1].score >= SIM_THRESHOLD_BASE
              THEN Hit(res[1].row.answer, res[1].score, "base")
              ELSE NoHit
            : res \in retrieve_best(query_en, base, index, TOPK) }

\* answer_from_base(query_en, dept, base_df): the possible outcomes
answer_from_base(query_en, dept, base) ==
  LET filtered == SelectSeq(base, LAMBDA r : r.category = dept)
      base_dept == IF filtered = << >> THEN base ELSE filtered
      index == build_vector_index(Column(base_dept, "question"))
  IN IF ~index.ok THEN { Raised }
     ELSE { IF res[1].score >= SIM_THRESHOLD_BASE
              THEN Hit(res[1].row.answer, res[1].score, "base")
              ELSE NoHit
            : res \in retrieve_best(query_en, base_dept, index, TOPK) }

\* the fallback tier's context: the possible snippet lists, or Raised
Snippets(query_en, base) ==
  LET index == build_vector_index(Column(base, "question"))
  IN IF ~index.ok THEN { Raised }
     ELSE { [ kind |-> "snippets",
              list |-> [ k \in 1..Len(top) |->
                         "Q: " \o top[k].row.question \o "\nA: " \o top[k].row.answer ] ]
            : top \in retrieve_best(query_en, base, index, TOPK) }

\* a tier's accepted answer, localized and ready to log
Accepted(hit, out_lang, client, resp, trace) ==
  LET tr == translate_from_english(hit.ans, out_lang, client, resp)
  IN [ raised |-> FALSE, ans |-> tr.text, source |-> hit.source, score |-> hit.score,
       trace |-> trace, requests |-> tr.requests ]

Failed(trace) == [ raised |-> TRUE, trace |-> trace, requests |-> << >> ]

\* variant of RetrievalTiers that consults the base dataset before the custom FAQs
RetrievalTiersBaseFirst(query_en, dept, faqs, base) ==
  UNION { IF b.kind # "none" THEN { [ trace |-> << "base" >>, out |-> b ] }
          ELSE UNION {
            IF c.kind # "none" THEN { [ trace |-> << "base", "custom" >>, out |-> c ] }
            ELSE { [ trace |-> IF sn.kind = "raise" THEN << "base", "custom" >>
                               ELSE << "base", "custom", "openai_fallback" >>,
                     out |-> sn ]
                   : sn \in Snippets(query_en, base) }
            : c \in answer_from_custom_first(query_en, dept, faqs) }
          : b \in answer_from_base(query_en, dept, base) }

\* the retrieval part of generate_reply: the possible outcomes of trying the custom
\* tier, then the base tier, then gathering the fallback tier's context. trace lists
\* the tiers evaluated, in order
RetrievalTiers(query_en, dept, faqs, base) ==
  UNION { IF c.kind # "none" THEN { [ trace |-> << "custom" >>, out |-> c ] }
          ELSE UNION {
            IF b.kind # "none" THEN { [ trace |-> << "custom", "base" >>, out |-> b ] }
            ELSE { [ trace |-> IF sn.kind = "raise" THEN << "custom", "base" >>
                               ELSE << "custom", "base", "openai_fallback" >>,
                     out |-> sn ]
                   : sn \in Snippets(query_en, base) }
            : b \in answer_from_base(query_en, dept, base) }
          : c \in answer_from_custom_first(query_en, dept, faqs) }

\* variant of generate_reply whose base tier does not return: a base hit goes on to
\* the generative collaborator
generate_reply_no_short_circuit(query_en, out_lang, tier, client, resp) ==
  IF tier.out.kind = "raise" THEN Failed(tier.trace)
  ELSE IF tier.out.kind = "hit" /\ tier.out.source = "custom"
    THEN Accepted(tier.out, out_lang, client, resp, tier.trace)
  ELSE LET context == IF tier.out.kind = "hit" THEN << >> ELSE tier.out.list
           f == openai_fallback(query_en, context, out_lang, client, resp)
       IN [ raised |-> FALSE, ans |-> f.ans, source |-> f.source, score |-> f.score,
            trace |-> IF tier.out.kind = "hit" THEN tier.trace \o << "openai_fallback" >>
                      ELSE tier.trace,
            requests |-> f.requests ]

\* variant of generate_reply that localizes whatever it returns, the fallback tier's
\* result included
generate_reply_localizing_fallback(query_en, out_lang, tier, client, resp) ==
  IF tier.out.kind = "raise" THEN Failed(tier.trace)
  ELSE IF tier.out.kind = "hit" THEN Accepted(tier.out, out_lang, client, resp, tier.trace)
  ELSE LET f == openai_fallback(query_en, tier.out.list, out_lang, client, resp)
           tr == translate_from_english(f.ans, out_lang, client, resp)
       IN [ raised |-> FALSE, ans |-> tr.text, source |-> f.source, score |-> f.score,
            trace |-> tier.trace, requests |-> f.requests \o tr.requests ]

\* generate_reply(user_message_raw, query_en, username, dept, out_lang) from the
\* outcome `tier` of its retrieval part. raised = TRUE is an exception leaving
\* generate_reply (nothing is logged then)
generate_reply(query_en, out_lang, tier, client, resp) ==
  IF tier.out.kind = "raise" THEN Failed(tier.trace)
  ELSE IF tier.out.kind = "hit" THEN Accepted(tier.out, out_lang, client, resp, tier.trace)
  ELSE LET f == openai_fallback(query_en, tier.out.list, out_lang, client, resp)
       IN [ raised |-> FALSE, ans |-> f.ans, source |-> f.source, score |-> f.score,
            trace |-> tier.trace, requests |-> f.requests ]

\* ------------------------------------------------------------------------
\* State
\* ------------------------------------------------------------------------
VARIABLES
  OPENAI_API_KEY,  \* whether the credential is configured (os.getenv at import)
  base_df,         \* load_base_dataset(): rows question, answer, category
  custom_faqs,     \* table custom_faqs, most recently updated row first; a row is
                   \* addressed by its position (the id column only names it)
  chat_logs,       \* table chat_logs (append-only): its row count and newest row
  dept_router,     \* what @st.cache_resource holds for build_dept_router()
  vector_index,    \* what @st.cache_resource holds for build_vector_index() after the
                   \* calls of answer_from_custom_first made on their own: one entry
                   \* for each key, with the texts its index was fitted on (which
                   \* determine the index)
  session,         \* st.session_state of the one browser session: user,
                   \* preferred_lang, the length of messages, active_ticket
  complaints,      \* table complaints: its row count and newest row
  last,            \* the call or page run that has just returned, with its arguments
                   \* and result
  remembered       \* an earlier route_department call, kept for comparison, with
                   \* the kinds of events that have followed it

vars == << OPENAI_API_KEY, float_above, base_df, custom_faqs, chat_logs, dept_router,
           vector_index, session, complaints, last, remembered >>

\* bounds of the model
MaxFaqs == 3
MaxLogs == 1

NoValue == [ cached |-> FALSE ]

\* st.session_state with nobody logged in: the keys user, messages and active_ticket
\* are absent (messages 0, active_ticket 0) and main() has set preferred_lang to None
NoSession == [ user |-> None, preferred_lang |-> None, messages |-> 0, active_ticket |-> 0 ]
NoCall == [ op |-> "none" ]

\* the remembered call, with one more kind of event noted as having followed it
Note(call, event) ==
  IF call = NoCall THEN call ELSE [ call EXCEPT !.since = @ \cup { event } ]

\* the base dataset (question, answer, category), as load_base_dataset() shapes it
BASE_DATASETS ==
  { << [ question |-> "what is my loan status",
         answer |-> "Check {app} for your loan status.", category |-> "LOAN" ],
       [ question |-> "how do i apply for a loan",
         answer |-> "Apply for a loan online.", category |-> "LOAN" ],
       [ question |-> "how do i block my card",
         answer |-> "Call us to block the card.", category |-> "CARD" ] >> }

\* what the admin types into "Create a new FAQ"
FAQ_INPUTS ==
  { [ department |-> "LOAN", question |-> "loan status update",
      answer |-> "Your loan is pending review." ],
    [ department |-> "LOAN", question |-> "?", answer |-> "See a teller." ],
    [ department |-> "CARD", question |-> " ", answer |-> "Nothing." ] }

\* what the admin types into "Edit / Delete FAQ"
UPDATE_INPUTS ==
  { [ department |-> "LOAN", question |-> " ", answer |-> "" ] }

CASCADE_QUERIES == { "what is my loan status", "reset" }
CASCADE_DEPTS == { "LOAN", "ATM" }
OUT_LANGS == { "en", "sw" }
USERNAME == "user"

Init ==
  /\ OPENAI_API_KEY \in BOOLEAN
  /\ float_above \in BOOLEAN
  /\ base_df \in BASE_DATASETS
  /\ custom_faqs = << >>
  /\ chat_logs = [ rows |-> 0 ]
  /\ dept_router = NoValue
  /\ vector_index = {}
  /\ session = NoSession
  /\ complaints = [ rows |-> 0 ]
  /\ last = NoCall
  /\ remembered = NoCall

\* ------------------------------------------------------------------------
\* Admin console: FAQ maintenance
\* ------------------------------------------------------------------------
\* "Save FAQ": add_custom_faq(dept, q.strip(), a.strip(), ...) when both are non-blank
AddFaqOf(inputs) ==
  \E f \in inputs :
    /\ last = NoCall
    /\ Len(custom_faqs) < MaxFaqs
    /\ Strip(f.question) # "" /\ Strip(f.answer) # ""
    /\ custom_faqs' = << [ department |-> f.department,
                           question |-> Strip(f.question), answer |-> Strip(f.answer) ] >>
                      \o custom_faqs
    /\ last' = NoCall
    /\ remembered' = Note(remembered, "faq")
    /\ UNCHANGED << OPENAI_API_KEY, float_above, vector_index, base_df, session, complaints,
                    chat_logs, dept_router >>

AddFaq == AddFaqOf(FAQ_INPUTS)

Without(seq, i) == SubSeq(seq, 1, i - 1) \o SubSeq(seq, i + 1, Len(seq))

\* "Update FAQ": update_custom_faq(edit_id, new_dept, new_q.strip(), new_a.strip(), ...)
UpdateFaqOf(inputs) ==
  \E i \in 1..Len(custom_faqs), u \in inputs :
    /\ last = NoCall
    /\ custom_faqs' = << [ department |-> u.department,
                           question |-> Strip(u.question), answer |-> Strip(u.answer) ] >>
                      \o Without(custom_faqs, i)
    /\ last' = NoCall
    /\ remembered' = Note(remembered, "faq")
    /\ UNCHANGED << OPENAI_API_KEY, float_above, vector_index, base_df, session, complaints,
                    chat_logs, dept_router >>

UpdateFaq == UpdateFaqOf(UPDATE_INPUTS)

\* "Delete FAQ": delete_custom_faq(edit_id)
DeleteFaq ==
  \E i \in 1..Len(custom_faqs) :
    /\ last = NoCall
    /\ custom_faqs' = Without(custom_faqs, i)
    /\ last' = NoCall
    /\ remembered' = Note(remembered, "faq")
    /\ UNCHANGED << OPENAI_API_KEY, float_above, vector_index, base_df, session, complaints,
                    chat_logs, dept_router >>

\* ------------------------------------------------------------------------
\* Calls
\* ------------------------------------------------------------------------
\* variant of log_chat that inserts the row twice
log_chat_twice(logs, username, user_message, bot_reply, source, score, department) ==
  [ rows |-> logs.rows + 2,
    newest |-> [ username |-> username, user_message |-> user_message,
                 bot_reply |-> bot_reply, source |-> source, score |-> score,
                 department |-> department ] ]

\* log_chat(username, user_message, bot_reply, source, score, department)
log_chat(logs, username, user_message, bot_reply, source, score, department) ==
  [ rows |-> logs.rows + 1,
    newest |-> [ username |-> username, user_message |-> user_message,
                 bot_reply |-> bot_reply, source |-> source, score |-> score,
                 department |-> department ] ]

\* one call of generate_reply, with the query itself as the raw message
GenerateReplyOn(queries, depts) ==
  /\ last = NoCall
  /\ chat_logs.rows < MaxLogs
  /\ \E q \in queries, d \in depts :
       \E tier \in RetrievalTiers(q, d, custom_faqs, base_df) :
         \E lang \in OUT_LANGS, construct_ok \in BOOLEAN, resp \in RESPONSES :
           LET client == get_openai_client(OPENAI_API_KEY, construct_ok)
               r == generate_reply(q, lang, tier, client, resp)
           IN /\ last' = [ op |-> "generate_reply", query |-> q, dept |-> d,
                           out_lang |-> lang, client |-> client, resp |-> resp,
                           result |-> r ]
              /\ chat_logs' = IF r.raised THEN chat_logs
                              ELSE log_chat(chat_logs, USERNAME, q, r.ans, r.source,
                                            r.score, d)
              /\ remembered' = Note(remembered, "reply")
              /\ UNCHANGED << OPENAI_API_KEY, float_above, vector_index, base_df,
                              session, complaints, custom_faqs, dept_router >>

GenerateReply == GenerateReplyOn(CASCADE_QUERIES, CASCADE_DEPTS)

\* variant of DeptRouter that fits the reference index anew on every call, over the
\* exemplars and the questions of the custom FAQs
DeptRouterWithFaqs ==
  [ index |-> build_vector_index(dept_texts \o Column(custom_faqs, "question")),
    labels |-> dept_labels \o Column(custom_faqs, "department") ]

\* what @st.cache_resource hands out for build_dept_router(): the value it holds,
\* or else a newly built one
DeptRouter == IF dept_router.cached THEN dept_router.value ELSE build_dept_router

\* one call of route_department; build_dept_router() is reached, and its value
\* cached, only when no keyword matches
RouteDepartmentOn(texts) ==
  /\ last = NoCall
  /\ \E text_en \in texts :
       LET router == DeptRouter
           rule == RuleMatches(normalize(text_en)) # {}
       IN /\ last' = [ op |-> "route_department", text |-> text_en,
                       result |-> route_department(text_en, router),
                       cached |-> dept_router.cached, since |-> {} ]
          /\ dept_router' = IF rule THEN dept_router
                            ELSE [ cached |-> TRUE, value |-> router ]
          /\ UNCHANGED << OPENAI_API_KEY, float_above, vector_index, base_df, session, complaints,
                          custom_faqs, chat_logs, remembered >>

\* the call that has just returned is kept for comparison with later ones
Remember ==
  /\ last # NoCall /\ last.op = "route_department"
  /\ remembered' = last
  /\ last' = NoCall
  /\ UNCHANGED << OPENAI_API_KEY, float_above, vector_index, base_df, session, complaints,
                  custom_faqs, chat_logs, dept_router >>

\* the call has returned and the page has been rendered
Return ==
  /\ last # NoCall
  /\ last' = NoCall
  /\ remembered' = IF last.op = "route_department" THEN Note(remembered, "route")
                   ELSE remembered
  /\ UNCHANGED << OPENAI_API_KEY, float_above, vector_index, base_df, session, complaints,
                  custom_faqs, chat_logs, dept_router >>

Next == AddFaq \/ UpdateFaq \/ DeleteFaq \/ GenerateReply \/ Return

Spec == Init /\ [][Next]_vars

\* texts given to route_department
ROUTE_TEXTS ==
  { "find atm", "nearest atm", "atm reversal", "atm swallowed my card",
    "ATM Swallowed My CARD", " Cash \t Withdrawal ", "atmosphere", "visa",
    "borrow", "pending transfer", "send money", "pin reset", "I forgot my password",
    "annual fee", "pricing", "branch locator", "speak to an agent", "bank statement",
    "close account",
    "money", "hello", "", "fee dispute", "withdrawal dispute", "failed withdrawal",
    "cancel annual", "check", "kyc update" }

RouteDepartment == RouteDepartmentOn(ROUTE_TEXTS)

NextRoute == RouteDepartment \/ Return

\* routing alone
SpecRoute == Init /\ [][NextRoute]_vars

\* routing with FAQ maintenance and replies in between
HISTORY_TEXTS == { "update", "cancel annual", "find atm" }
HISTORY_FAQS ==
  { [ department |-> "LOAN", question |-> "loan status update",
      answer |-> "Your loan is pending review." ] }

NextHistory ==
  \/ RouteDepartmentOn(HISTORY_TEXTS)
  \/ Remember
  \/ AddFaqOf(HISTORY_FAQS)
  \/ UpdateFaq
  \/ DeleteFaq
  \/ GenerateReplyOn({ "reset" }, { "LOAN" })
  \/ Return

SpecHistory == Init /\ [][NextHistory]_vars

\* ------------------------------------------------------------------------
\* The custom tier between changes of the FAQs
\* ------------------------------------------------------------------------
\* what the admin saves as new FAQs
STORED_FAQS ==
  { [ department |-> "LOAN", question |-> "loan status update",
      answer |-> "Your loan is pending review." ],
    [ department |-> "CARD", question |-> "card status update",
      answer |-> "Your card is active." ] }

\* what the admin saves over an existing FAQ
EDITED_FAQS ==
  { [ department |-> "LOAN", question |-> "loan repayment status",
      answer |-> "Repay by M-Pesa." ] }

CUSTOM_QUERIES == { "loan status update" }
CUSTOM_DEPTS == { "LOAN", "CARD" }

\* the number of entries followed in the cache of build_vector_index
MaxCached == 2

\* the call returns `out`
CustomCallReturns(q, d, call, out) ==
  /\ last' = [ op |-> "answer_from_custom_first", query |-> q, dept |-> d,
               built |-> call.built,
               reused |-> call.built /\ call.reused,
               fitted |-> IF call.built THEN call.fitted ELSE << >>,
               result |-> out ]
  /\ vector_index' = call.cache

\* one call of answer_from_custom_first
AnswerFromCustomFirstOn(queries, depts) ==
  /\ last = NoCall
  /\ \E q \in queries, d \in depts :
       \E call \in { answer_from_custom_first_cached(q, d, custom_faqs, vector_index) } :
         /\ Cardinality(call.cache) <= MaxCached
         /\ \E out \in call.outcomes : CustomCallReturns(q, d, call, out)
  /\ UNCHANGED << OPENAI_API_KEY, float_above, base_df, session, complaints,
                  custom_faqs, chat_logs, dept_router, remembered >>

AnswerFromCustomFirst == AnswerFromCustomFirstOn(CUSTOM_QUERIES, CUSTOM_DEPTS)

NextFaqs ==
  \/ AddFaqOf(STORED_FAQS)
  \/ UpdateFaqOf(EDITED_FAQS)
  \/ DeleteFaq
  \/ AnswerFromCustomFirst
  \/ Return

SpecFaqs == Init /\ [][NextFaqs]_vars

\* ------------------------------------------------------------------------
\* The placeholder guard on its own
\* ------------------------------------------------------------------------
\* what a text given to protect_placeholders is made of: the three token shapes,
\* plain text, and text that looks like a marker, outside and inside a token
PIECES == { "{amount}", "{{name}}", "<b>", "pay ", "@@PH0@@", "{@@PH1@@}" }

MaxPieces == 3

RECURSIVE PieceTexts(_)
\* the texts of at most n pieces
PieceTexts(n) ==
  IF n = 0 THEN { "" }
  ELSE LET shorter == PieceTexts(n - 1)
       IN shorter \cup { t \o p : t \in shorter, p \in PIECES }

\* twelve adjacent tokens: the markers run up to @@PH11@@
TWELVE_TOKENS == "{a}{b}{c}<d>{{e}}{f}{g}{h}<i>{j}{k}{l}"

PLACEHOLDER_TEXTS == PieceTexts(MaxPieces) \cup { TWELVE_TOKENS }

\* one call of protect_placeholders
ProtectPlaceholders ==
  /\ last = NoCall
  /\ \E text \in PLACEHOLDER_TEXTS :
       last' = [ op |-> "protect_placeholders", text |-> text,
                 result |-> protect_placeholders(text) ]
  /\ UNCHANGED << OPENAI_API_KEY, float_above, vector_index, base_df, session, complaints,
                  custom_faqs, chat_logs, dept_router, remembered >>

\* restore_placeholders called once on what protect_placeholders returned
RestorePlaceholders ==
  /\ last.op = "protect_placeholders"
  /\ last' = [ op |-> "restore_placeholders", text |-> last.text,
               guarded |-> last.result[1], mapping |-> last.result[2],
               result |-> restore_placeholders(last.result[1], last.result[2]) ]
  /\ UNCHANGED << OPENAI_API_KEY, float_above, vector_index, base_df, session, complaints,
                  custom_faqs, chat_logs, dept_router, remembered >>

NextPlaceholders == ProtectPlaceholders \/ RestorePlaceholders \/ Return

SpecPlaceholders == Init /\ [][NextPlaceholders]_vars

\* C12: for every text with k >= 0 brace, double-brace or angle tokens (adjacent
\* tokens, eleven tokens and more, and texts that already contain marker-like
\* substrings '@@PHn@@' inside or outside a token included), restore_placeholders
\* applied once to the unmodified output of protect_placeholders gives back the
\* original text; with k = 0 protect_placeholders returns the text unchanged and an
\* empty map
C12_RoundTrip ==
  /\ last.op = "restore_placeholders" => last.result = last.text
  /\ (last.op = "protect_placeholders" /\ \A i \in 1..Len(last.text) :
                                              PlaceholderAt(last.text, i) = 0)
       => last.result = << last.text, << >> >>

\* ------------------------------------------------------------------------
\* The index builder on its own
\* ------------------------------------------------------------------------
\* what a corpus is made of: an empty cell, a blank one, a cell that holds no string,
\* a text without a run of two word characters, and texts that share terms and
\* contain stop words
INDEX_ENTRIES == { "", " ", None, "?", "Loan fee", "the loan fee", "a card fee" }

MaxTexts == 4

RECURSIVE Corpora(_)
\* the lists of at most n entries
Corpora(n) ==
  IF n = 0 THEN { << >> }
  ELSE LET shorter == Corpora(n - 1)
       IN shorter \cup { Append(c, e) : c \in shorter, e \in INDEX_ENTRIES }

\* one call of build_vector_index
BuildVectorIndex ==
  /\ last = NoCall
  /\ \E texts \in Corpora(MaxTexts) :
       last' = [ op |-> "build_vector_index", texts |-> texts,
                 result |-> build_vector_index(texts) ]
  /\ UNCHANGED << OPENAI_API_KEY, float_above, vector_index, base_df, session, complaints,
                  custom_faqs, chat_logs, dept_router, remembered >>

NextIndex == BuildVectorIndex \/ Return

SpecIndex == Init /\ [][NextIndex]_vars

Built == last.op = "build_vector_index"

\* the entries that are strings with something other than white space in them
Remaining(texts) ==
  SelectSeq(texts, LAMBDA t : t # None /\ \E i \in 1..Len(t) : ~IsSpace(SubSeq(t, i, i)))

\* the unigrams and bigrams of a list of tokens
Grams(toks) == Range(toks) \cup { toks[i] \o " " \o toks[i + 1] : i \in 1..(Len(toks) - 1) }

NonStop(toks) == SelectSeq(toks, LAMBDA w : w \notin ENGLISH_STOP_WORDS)

\* the index has one row for each remaining text
IndexRowsAreRemainingTexts ==
  Built /\ last.result.ok => Len(last.result.X) = Len(Remaining(last.texts))

\* fewer than 3 remaining texts: the vocabulary is every unigram and bigram of theirs
SmallCorpusKeepsEveryGram ==
  Built /\ last.result.ok /\ Len(Remaining(last.texts)) < 3 =>
    LET texts == Remaining(last.texts)
    IN last.result.vocab = UNION { Grams(Tokens(texts[i])) : i \in 1..Len(texts) }

\* 1 or 2 remaining texts: there is an index and its vocabulary is not empty
SmallCorpusHasVocabulary ==
  Built /\ Len(Remaining(last.texts)) \in { 1, 2 } =>
    last.result.ok /\ last.result.vocab # {}

\* 3 or more remaining texts: every term kept is made of words that are not stop
\* words and occurs in at least 2 of the texts
LargeCorpusKeepsSharedTerms ==
  Built /\ last.result.ok /\ Len(Remaining(last.texts)) >= 3 =>
    LET texts == Remaining(last.texts)
        grams == [ i \in 1..Len(texts) |-> Grams(NonStop(Tokens(texts[i]))) ]
    IN \A t \in last.result.vocab :
         Cardinality({ i \in 1..Len(texts) : t \in grams[i] }) >= 2

\* C20: build_vector_index discards blank and non-string entries; with fewer than 3
\* remaining texts it keeps every unigram and bigram (minimum document frequency 1,
\* no stop-word removal), so any corpus of 1 or 2 non-blank texts yields an index
\* with a non-empty vocabulary; with 3 or more remaining texts it keeps only
\* non-stop-word terms that occur in at least 2 documents
C20_IndexVocabulary ==
  /\ IndexRowsAreRemainingTexts
  /\ SmallCorpusKeepsEveryGram
  /\ SmallCorpusHasVocabulary
  /\ LargeCorpusKeepsSharedTerms

CustomAnswered == last.op = "answer_from_custom_first"

\* the rows stored for a department, most recently updated first
StoredFor(dept) == SelectSeq(custom_faqs, LAMBDA r : r.department = dept)

\* C21: after any sequence of add_custom_faq, update_custom_faq and delete_custom_faq
\* operations the next custom-tier query is matched against an index built over
\* exactly the questions currently stored for that department and returns answer
\* text as currently stored; a cached index is reused only when the question list
\* is identical, so no query is answered from a deleted FAQ or a superseded
\* question or answer
C21_CustomTierSeesStoredFaqs ==
  CustomAnswered =>
    LET scope == StoredFor(last.dept)
        stored == Remaining(Column(scope, "question"))
    IN /\ last.built => last.fitted = stored
       /\ last.reused => \E e \in vector_index : e.texts = stored
       /\ last.result \in answer_from_custom_first(last.query, last.dept, custom_faqs)
       /\ last.result.kind = "hit" =>
            \E i \in 1..Len(scope) : scope[i].answer = last.result.ans

\* a query answered from the FAQs as they are now, while the cache still holds the
\* index of a question that is no longer stored
C21_Witness ==
  /\ CustomAnswered /\ last.result.kind = "hit" /\ ~last.reused
  /\ \E e \in vector_index :
       \E k \in 1..Len(e.texts) :
         \A i \in 1..Len(custom_faqs) : custom_faqs[i].question # e.texts[k]

\* ------------------------------------------------------------------------
\* The language functions on their own
\* ------------------------------------------------------------------------
\* what a customer types: the text, the language it is written in and its English
\* rendering
MESSAGES ==
  { [ text |-> "what is my loan status", lang |-> "en",
      english |-> "what is my loan status" ],
    [ text |-> "hali ya mkopo wangu", lang |-> "sw",
      english |-> "what is my loan status" ],
    [ text |-> "nataka {amount} leo", lang |-> "sw",
      english |-> "i want {amount} today" ],
    [ text |-> "kaarkayga waa la xannibay", lang |-> "so",
      english |-> "my card is blocked" ] }

\* the document the request is instructed to return
JsonDocument(lang, english) ==
  "{\"lang\": \"" \o lang \o "\", \"english\": \"" \o english \o "\"}"

\* a response text with the labels the properties judge it by: shape says what the
\* text is (not JSON, JSON but no object, an object) and declared what its lang
\* member says
Document(text, shape, declared) ==
  [ kind |-> "text", text |-> text, shape |-> shape, declared |-> declared ]

\* what the detect-and-translate request for message m can come back with: an
\* exception, something that is not JSON, the document asked for, and an object
\* without the English text
DetectResponsesCore(m) ==
  LET english == protect_placeholders(m.english)[1]
  IN { [ kind |-> "error" ],
       Document("Sorry, I cannot help with that.", "not_json", ""),
       Document(JsonDocument(m.lang, english) \o "\n", "object", m.lang),
       Document("{\"lang\": \"" \o m.lang \o "\"}", "object", m.lang) }

\* the same, and more of each kind
DetectResponses(m) ==
  LET english == protect_placeholders(m.english)[1]
  IN DetectResponsesCore(m) \cup
     { [ kind |-> "none" ],
       Document("{\"lang\": \"" \o m.lang \o "\", \"english\": ", "not_json", ""),
       Document("[\"" \o m.lang \o "\", \"" \o english \o "\"]", "not_object", ""),
       Document("\"" \o m.lang \o "\"", "not_object", ""),
       Document("null", "not_object", ""),
       Document(JsonDocument(" SW ", english), "object", " SW "),
       Document(JsonDocument("fr", english), "object", "fr"),
       Document("{ \"english\" : \"" \o english \o "\" , \"lang\" : null }", "object",
                "None"),
       Document("{}", "object", "en") }

\* one call of detect_and_translate_to_english
DetectAndTranslate ==
  /\ last = NoCall
  /\ \E m \in MESSAGES, construct_ok \in BOOLEAN :
       \E resp \in DetectResponses(m) :
         LET client == get_openai_client(OPENAI_API_KEY, construct_ok)
         IN last' = [ op |-> "detect_and_translate_to_english", message |-> m,
                      client |-> client, resp |-> resp,
                      result |-> detect_and_translate_to_english(m.text, client, resp) ]
  /\ UNCHANGED << OPENAI_API_KEY, float_above, vector_index, base_df, session, complaints,
                  custom_faqs, chat_logs, dept_router, remembered >>

\* English answers handed to translate_from_english
ANSWER_TEXTS ==
  { "Apply for a loan online.", "Check {app} for your loan status.",
    "Call us to block the card." }

\* one call of translate_from_english
TranslateFromEnglish ==
  /\ last = NoCall
  /\ \E text_en \in ANSWER_TEXTS, target_lang \in LANG_CODES :
       \E construct_ok \in BOOLEAN, resp \in RESPONSES :
         LET client == get_openai_client(OPENAI_API_KEY, construct_ok)
         IN last' = [ op |-> "translate_from_english", text_en |-> text_en,
                      target_lang |-> target_lang, client |-> client, resp |-> resp,
                      result |-> translate_from_english(text_en, target_lang, client,
                                                        resp) ]
  /\ UNCHANGED << OPENAI_API_KEY, float_above, vector_index, base_df, session, complaints,
                  custom_faqs, chat_logs, dept_router, remembered >>

\* messages given to handle_language_command
COMMAND_TEXTS ==
  { "reply in arabic", "Jibu kwa KISWAHILI", "English or Somali?", "Somali, not Arabic",
    "amharic and swahili please", "af SOOMAALI", " reply in " \o AMHARIC_WORD,
    ARABIC_NAME, "bi " \o ARABIC_WORD \o " or english",
    "I need an English statement", "what is my loan status", " \t ", "" }

\* one call of handle_language_command
HandleLanguageCommand ==
  /\ last = NoCall
  /\ \E user_text \in COMMAND_TEXTS :
       last' = [ op |-> "handle_language_command", user_text |-> user_text,
                 result |-> handle_language_command(user_text) ]
  /\ UNCHANGED << OPENAI_API_KEY, float_above, vector_index, base_df, session, complaints,
                  custom_faqs, chat_logs, dept_router, remembered >>

NextLanguage ==
  DetectAndTranslate \/ TranslateFromEnglish \/ HandleLanguageCommand \/ Return

SpecLanguage == Init /\ [][NextLanguage]_vars

\* ------------------------------------------------------------------------
\* Customer pages
\* ------------------------------------------------------------------------
MaxMessages == 5
MaxComplaints == 1

\* what the customer types into the chat box and the complaint form
COMMAND_MESSAGES ==
  { [ text |-> "reply in arabic", lang |-> "en", english |-> "reply in arabic" ],
    [ text |-> " English or Somali? ", lang |-> "en", english |-> "English or Somali?" ] }

PLAIN_MESSAGES ==
  { [ text |-> "what is my loan status", lang |-> "en",
      english |-> "what is my loan status" ],
    [ text |-> "hali ya mkopo wangu", lang |-> "sw",
      english |-> "what is my loan status" ] }

CUSTOMER_MESSAGES == COMMAND_MESSAGES \cup PLAIN_MESSAGES

NO_KEY_NOTICE ==
  "OPENAI_API_KEY is not set. Please set your API key to enable translation + multilingual support."

\* variant of Configured that takes the credential for granted
ConfiguredAnyway(key) == TRUE

\* the pages' test of the credential: "if not OPENAI_API_KEY" fails
Configured(key) == key

\* login_page: a customer's credentials were accepted
Login ==
  /\ last = NoCall
  /\ session.user = None
  /\ session' = [ session EXCEPT !.user = USERNAME ]
  /\ UNCHANGED << OPENAI_API_KEY, float_above, vector_index, base_df, custom_faqs, chat_logs,
                  dept_router, complaints, last, remembered >>

\* "Logout": user, role, page, messages, active_ticket and preferred_lang are popped,
\* and main() sets preferred_lang to None on the rerun
Logout ==
  /\ last = NoCall
  /\ session.user # None
  /\ session' = NoSession
  /\ remembered' = NoCall
  /\ UNCHANGED << OPENAI_API_KEY, float_above, vector_index, base_df, custom_faqs, chat_logs,
                  dept_router, complaints, last >>

\* variant of AfterCommand that leaves the preferred language as it was
AfterCommandKeepingLanguage(state, forced, messages) ==
  [ state EXCEPT !.messages = messages ]

\* st.session_state after a language command: preferred_lang is the command's code
\* and the message and its acknowledgement are in the history
AfterCommand(state, forced, messages) ==
  [ state EXCEPT !.preferred_lang = forced, !.messages = messages ]

\* variant of OutLang that takes the detected language whenever there is one
OutLangDetected(preferred_lang, detected_lang) == detected_lang

\* st.session_state.get("preferred_lang") or detected_lang
OutLang(preferred_lang, detected_lang) ==
  IF preferred_lang # None /\ preferred_lang # "" THEN preferred_lang ELSE detected_lang

Call(fn, arg) == [ fn |-> fn, arg |-> arg ]
Request(site, raised) == [ site |-> site, raised |-> raised ]

\* the requests sent by one call, each with whether it raised
RequestsOf(sites, resp_raised) ==
  [ i \in 1..Len(sites) |-> Request(sites[i], resp_raised) ]

\* one course of detection, routing and reply, as the properties see it
Course(text, resp1, d, out_lang, route, hit, r, resp2) ==
  [ resp1 |-> resp1, detected_lang |-> d.lang, text_en |-> d.english,
    out_lang |-> out_lang, route |-> route, reply |-> r,
    calls |-> << Call("detect_and_translate_to_english", text),
                 Call("route_department", d.english),
                 Call("generate_reply", d.english) >>
              \o (IF hit.kind = "hit" THEN << Call("translate_from_english", hit.ans) >>
                  ELSE << >>),
    requests |-> RequestsOf(d.requests, resp1.kind = "error")
                 \o RequestsOf(r.requests, resp2 = "error") ]

\* ans, source, score = generate_reply(text, text_en, user, dept, out_lang)
Replies(text, client, resp1, d, out_lang, route) ==
  { Course(text, resp1, d, out_lang, route, tier.out,
           generate_reply(d.english, out_lang, tier, client, resp2), resp2)
    : tier \in RetrievalTiers(d.english, route[1], custom_faqs, base_df),
      resp2 \in RESPONSES }

\* out_lang = ...; dept, score, method = route_department(text_en)
Routings(text, router, client, resp1, d) ==
  Replies(text, client, resp1, d, OutLang(session.preferred_lang, d.lang),
          route_department(d.english, router))

\* detected_lang, text_en = detect_and_translate_to_english(text)
Detections(text, router, client, resp1) ==
  Routings(text, router, client, resp1,
           detect_and_translate_to_english(text, client, resp1))

\* detection, output language, routing and reply of one chat or complaint (lines
\* 1232-1236, 1141-1161): the possible courses, for the text typed and the router
Answers(text, m, router) ==
  UNION { Detections(text, router, get_openai_client(OPENAI_API_KEY, construct_ok), resp1)
          : construct_ok \in BOOLEAN, resp1 \in DetectResponsesCore(m) }

\* the footer chat_page puts under a reply
Footer(source, dept) ==
  CASE source = "custom" -> " Dept FAQ (" \o dept \o ")"
    [] source = "base" -> " Base dataset (" \o dept \o ")"
    [] source = "openai" -> " AI fallback (" \o dept \o ")"
    [] OTHER -> " Low confidence (" \o dept \o ")"

Message(role, text, caption) == [ role |-> role, text |-> text, caption |-> caption ]

\* what a page run leaves in `last`
PageRun(page, m, branch, calls, requests, appended, course) ==
  [ op |-> page, message |-> m, preferred |-> session.preferred_lang, branch |-> branch,
    calls |-> calls, requests |-> requests, appended |-> appended, course |-> course,
    since |-> {} ]

\* chat_page, "Send" with a non-blank message (the welcome message is seeded first)
ChatTurnOn(inputs) ==
  /\ last = NoCall
  /\ session.user # None
  /\ \E m \in inputs :
       LET q == Strip(m.text)
           seeded == IF session.messages = 0 THEN 1 ELSE session.messages
           cmd == handle_language_command(q)
           asked == Call("handle_language_command", q)
           user_msg == Message("user", q, << >>)
           router == DeptRouter
       IN /\ q # ""
          /\ seeded + 2 <= MaxMessages
          /\ \/ /\ cmd.handled
                /\ session' = AfterCommand(session, cmd.forced, seeded + 2)
                /\ last' = PageRun("chat_page", m, "command", << asked >>, << >>,
                                   << user_msg, Message("assistant", cmd.msg, << >>) >>,
                                   << >>)
                /\ remembered' = last'
                /\ UNCHANGED << chat_logs, dept_router >>
             \/ /\ ~cmd.handled /\ ~Configured(OPENAI_API_KEY)
                /\ session' = [ session EXCEPT !.messages = seeded + 2 ]
                /\ last' = PageRun("chat_page", m, "no_key", << asked >>, << >>,
                                   << user_msg, Message("assistant", NO_KEY_NOTICE, << >>) >>,
                                   << >>)
                /\ remembered' = Note(remembered, "turn")
                /\ UNCHANGED << chat_logs, dept_router >>
             \/ /\ ~cmd.handled /\ Configured(OPENAI_API_KEY)
                /\ chat_logs.rows < MaxLogs
                /\ \E a \in Answers(q, m, router) :
                     LET r == a.reply
                         dept == a.route[1]
                         reply_msg ==
                           Message("assistant", r.ans,
                                   << dept, a.route[2], a.route[3], Footer(r.source, dept) >>)
                     IN /\ session' = [ session EXCEPT
                                          !.messages = seeded + (IF r.raised THEN 1 ELSE 2) ]
                        /\ chat_logs' = IF r.raised THEN chat_logs
                                        ELSE log_chat(chat_logs, session.user, q, r.ans,
                                                      r.source, r.score, dept)
                        /\ dept_router' = IF a.route[3] = "rule" THEN dept_router
                                          ELSE [ cached |-> TRUE, value |-> router ]
                        /\ last' = PageRun("chat_page", m,
                                           IF r.raised THEN "raised" ELSE "reply",
                                           << asked >> \o a.calls, a.requests,
                                           IF r.raised THEN << user_msg >>
                                           ELSE << user_msg, reply_msg >>,
                                           << a >>)
                        /\ remembered' = Note(remembered, "turn")
  /\ UNCHANGED << OPENAI_API_KEY, float_above, vector_index, base_df, custom_faqs, complaints >>

ChatTurn == ChatTurnOn(CUSTOMER_MESSAGES)

\* create_complaint(username, text, department, priority, summary)
create_complaint(table, username, text, department, priority, summary) ==
  [ rows |-> table.rows + 1,
    newest |-> [ username |-> username, text |-> text, department |-> department,
                 priority |-> priority, summary |-> summary ] ]

\* text[:180] + ("..." if len(text) > 180 else "")
Summary(text) ==
  IF Len(text) > 180 THEN SubSeq(text, 1, 180) \o "..." ELSE text

\* complaint_page, "Submit" with a non-blank text and priority Normal
ComplaintTurnOn(inputs) ==
  /\ last = NoCall
  /\ session.user # None
  /\ \E m \in inputs :
       LET text == Strip(m.text)
           router == DeptRouter
       IN /\ text # ""
          /\ \/ /\ ~Configured(OPENAI_API_KEY)
                /\ last' = PageRun("complaint_page", m, "no_key", << >>, << >>, << >>,
                                   << >>)
                /\ UNCHANGED << session, complaints, chat_logs, dept_router >>
             \/ /\ Configured(OPENAI_API_KEY)
                /\ complaints.rows < MaxComplaints
                /\ chat_logs.rows < MaxLogs
                /\ \E a \in Answers(text, m, router) :
                     LET r == a.reply
                         dept == a.route[1]
                     IN /\ complaints' = create_complaint(complaints, session.user, text,
                                                          dept, "Normal", Summary(text))
                        /\ session' = [ session EXCEPT
                                          !.active_ticket = complaints.rows + 1 ]
                        /\ chat_logs' = IF r.raised THEN chat_logs
                                        ELSE log_chat(chat_logs, session.user, text, r.ans,
                                                      r.source, r.score, dept)
                        /\ dept_router' = IF a.route[3] = "rule" THEN dept_router
                                          ELSE [ cached |-> TRUE, value |-> router ]
                        /\ last' = PageRun("complaint_page", m,
                                           IF r.raised THEN "raised" ELSE "reply",
                                           a.calls, a.requests, << >>, << a >>)
  /\ remembered' = Note(remembered, "turn")
  /\ UNCHANGED << OPENAI_API_KEY, float_above, vector_index, base_df, custom_faqs >>

ComplaintTurn == ComplaintTurnOn(CUSTOMER_MESSAGES)

NextChat == Login \/ Logout \/ ChatTurn \/ ComplaintTurn \/ Return

SpecChat == Init /\ [][NextChat]_vars

Detected == last.op = "detect_and_translate_to_english"

\* C13: detect_and_translate_to_english never raises and always returns a language
\* code among en, sw, am, so, ar: without a credential, on a call error and on a
\* response that is not JSON or not a JSON object it returns exactly ('en', the
\* original input text); a response whose lang is outside the five codes is reported
\* as 'en'
C13_DetectAlwaysAnswers ==
  Detected =>
    LET r == last.result
        resp == last.resp
    IN /\ r.lang \in { "en", "sw", "am", "so", "ar" }
       /\ (~last.client \/ resp.kind \in { "error", "none" }
             \/ (resp.kind = "text" /\ resp.shape \in { "not_json", "not_object" }))
            => (r.lang = "en" /\ r.english = last.message.text)
       /\ (last.client /\ resp.kind = "text" /\ resp.shape = "object")
            => r.lang = (IF normalize(resp.declared) \in { "en", "sw", "am", "so", "ar" }
                           THEN normalize(resp.declared) ELSE "en")

\* C13 happens: the response is an object that declares the language 'fr'; 'en' is
\* reported, with the English text of the response
C13_Witness ==
  /\ Detected
  /\ last.client
  /\ last.resp.kind = "text" /\ last.resp.shape = "object" /\ last.resp.declared = "fr"
  /\ last.result.lang = "en"
  /\ last.result.english = last.message.english
  /\ last.message.lang # "en"

Translated == last.op = "translate_from_english"

\* C14: translate_from_english returns its input text unchanged, without raising,
\* when the target language is 'en' (the collaborator is then not called at all),
\* when no credential is configured, and when the collaborator call fails
C14_TranslateDegradesToInput ==
  Translated =>
    LET r == last.result
    IN /\ last.target_lang = "en" => (r.text = last.text_en /\ r.requests = << >>)
       /\ (~OPENAI_API_KEY \/ ~last.client)
            => (r.text = last.text_en /\ r.requests = << >>)
       /\ (last.client /\ last.target_lang # "en" /\ last.resp = "error")
            => (r.text = last.text_en /\ r.requests = << "translate" >>)

\* C14 happens: the request for a Swahili translation failed and the English text
\* came back
C14_Witness ==
  /\ Translated
  /\ last.client /\ last.target_lang = "sw" /\ last.resp = "error"
  /\ last.result.text = last.text_en
  /\ last.result.requests = << "translate" >>

Commanded == last.op = "handle_language_command"

\* the trigger phrases of each language, in the order the rules are said to be tried
TRIGGERS ==
  << << "sw", { "kiswahili", "swahili" } >>,
     << "am", { "amharic", AMHARIC_WORD } >>,
     << "so", { "somali", "soomaali" } >>,
     << "ar", { "arabic", ARABIC_NAME, ARABIC_WORD } >>,
     << "en", { "english" } >> >>

\* a trigger of the p-th language occurs in the text, in whatever case
HasTrigger(p, text) == \E trigger \in TRIGGERS[p][2] : Contains(Lower(text), trigger)

\* C15: handle_language_command matches its trigger phrases as substrings, in
\* whatever case, and the first matching rule in the order sw, am, so, ar, en wins: a
\* message with triggers of several languages gets the earliest of them in that order,
\* with that language's acknowledgement; a message with no trigger, or a blank one,
\* is not handled and gets no language
C15_FirstTriggerWins ==
  Commanded =>
    LET r == last.result
        found == { p \in 1..Len(TRIGGERS) : HasTrigger(p, last.user_text) }
    IN /\ found = {} => (~r.handled /\ r.forced = None /\ r.msg = None)
       /\ \A p \in found :
            (\A e \in found : p <= e)
              => (r.handled /\ r.forced = TRIGGERS[p][1] /\ r.msg = COMMAND_ACK[r.forced])

\* C15 happens: a message in mixed case names English and Somali, and Somali wins
C15_Witness ==
  /\ Commanded
  /\ last.user_text # Lower(last.user_text)
  /\ HasTrigger(3, last.user_text) /\ HasTrigger(5, last.user_text)
  /\ last.result.handled /\ last.result.forced = "so"

\* ------------------------------------------------------------------------
\* Chat and complaint turns
\* ------------------------------------------------------------------------
ChatRun == last.op = "chat_page"

\* the languages of which the text holds a trigger, as positions in TRIGGERS
LanguagesNamed(text) == { p \in 1..Len(TRIGGERS) : HasTrigger(p, text) }

\* the code of the first of them
FirstLanguage(text) ==
  TRIGGERS[CHOOSE p \in LanguagesNamed(text) : \A e \in LanguagesNamed(text) : p <= e][1]

CalledIn(run) == { run.calls[i].fn : i \in 1..Len(run.calls) }

\* C16: in a chat turn whose message matches a language command, the session's
\* preferred language is set to the command's code, the fixed acknowledgement of that
\* language is the only assistant reply added to the history, and
\* detect_and_translate_to_english, route_department, generate_reply and
\* translate_from_english are not called in that turn ('reply in arabic' gives the
\* Arabic acknowledgement and code ar)
C16_CommandTurnOnlyAcknowledges ==
  (ChatRun /\ LanguagesNamed(last.message.text) # {}) =>
    LET code == FirstLanguage(last.message.text)
    IN /\ session.preferred_lang = code
       /\ last.appended = << Message("user", Strip(last.message.text), << >>),
                             Message("assistant", COMMAND_ACK[code], << >>) >>
       /\ CalledIn(last) \cap { "detect_and_translate_to_english", "route_department",
                                "generate_reply", "translate_from_english" } = {}
       /\ last.requests = << >>
       /\ last.message.text = "reply in arabic" => code = "ar"

\* C16 happens: 'reply in arabic' was sent while another language was preferred
C16_Witness ==
  /\ ChatRun
  /\ last.message.text = "reply in arabic"
  /\ last.preferred = "so"
  /\ session.preferred_lang = "ar"
  /\ last.appended[2].text = COMMAND_ACK.ar

\* a chat or complaint turn that got as far as detecting the language
Answered ==
  last.op \in { "chat_page", "complaint_page" } /\ last.branch \in { "reply", "raised" }

\* C17: once a language command has set the session's preferred language, every later
\* chat or complaint turn of the session uses it as the output language, whatever
\* language is detected for the message, until another command replaces it or logout
\* clears it; with no preference set the detected language is used
C17_PreferredLanguageIsOutputLanguage ==
  /\ session.preferred_lang =
       (IF remembered = NoCall THEN None ELSE FirstLanguage(remembered.message.text))
  /\ Answered =>
       LET a == last.course[1]
       IN /\ remembered # NoCall => a.out_lang = FirstLanguage(remembered.message.text)
          /\ remembered = NoCall => a.out_lang = a.detected_lang

\* C17 happens: a second language command replaced the first, and a complaint in
\* another language was then answered in the language of the second command
C17_Witness ==
  /\ Answered
  /\ last.op = "complaint_page"
  /\ remembered # NoCall
  /\ remembered.preferred # None
  /\ remembered.preferred # FirstLanguage(remembered.message.text)
  /\ last.course[1].out_lang = FirstLanguage(remembered.message.text)
  /\ last.course[1].detected_lang # last.course[1].out_lang
  /\ last.message.lang # "en"

\* the text is English: the English rendering of a message of the model
IsEnglish(text) ==
  \E m \in PLAIN_MESSAGES \cup COMMAND_MESSAGES : text = Strip(m.english)

\* C18: the text passed to route_department and to generate_reply as the query is
\* always English: on no path of a chat or complaint turn, a failed collaborator call
\* or a malformed translation response for a non-English message included, do routing
\* or retrieval get non-English text
C18_RoutingAndRetrievalGetEnglish ==
  Answered =>
    \A i \in 1..Len(last.calls) :
      last.calls[i].fn \in { "route_department", "generate_reply" }
        => IsEnglish(last.calls[i].arg)

RequestsAt(run, site) == { i \in 1..Len(run.requests) : run.requests[i].site = site }

\* C19: collaborator calls are never retried: in one chat or complaint turn each of
\* the three call sites (detect and translate, translate only, answer from context)
\* sends at most one request, a failed request is followed at once by the degraded
\* value, and the turn sends at most two requests in all
C19_NoRetry ==
  last.op \in { "chat_page", "complaint_page" } =>
    /\ Len(last.requests) <= 2
    /\ \A site \in { "detect", "translate", "answer" } :
         Cardinality(RequestsAt(last, site)) <= 1
    /\ \A i \in 1..Len(last.requests) :
         last.requests[i].site \in { "detect", "translate", "answer" }
    /\ \A i \in 1..Len(last.requests) :
         last.requests[i].raised =>
           LET a == last.course[1]
               r == a.reply
           IN CASE last.requests[i].site = "detect" ->
                     a.detected_lang = "en" /\ a.text_en = Strip(last.message.text)
                [] last.requests[i].site = "translate" ->
                     /\ ~r.raised /\ r.source \in { "custom", "base" }
                     /\ r.ans = last.calls[Len(last.calls)].arg
                [] last.requests[i].site = "answer" ->
                     ~r.raised /\ r.source = "fallback" /\ r.ans = FALLBACK_UNAVAILABLE

\* C19 happens: the detection request and the translation request of one turn both
\* failed, and the English answer was given
C19_Witness ==
  /\ Answered
  /\ Len(last.requests) = 2
  /\ last.requests[1] = Request("detect", TRUE)
  /\ last.requests[2] = Request("translate", TRUE)
  /\ last.course[1].reply.source = "base"
  /\ last.course[1].reply.ans = last.calls[Len(last.calls)].arg

\* a chat or complaint submission is handled in this step
PageTurn == last = NoCall /\ last'.op \in { "chat_page", "complaint_page" }

\* C23: every call of generate_reply that returns appends exactly one chat-log
\* entry, written before returning, whose bot reply, source, score and department
\* equal the returned answer, source and score and the routed department; chat turns
\* that are language commands or that are stopped for a missing credential append
\* no chat-log entry
C23_OneLogEntryPerReply ==
  [][ PageTurn =>
        IF last'.branch = "reply"
          THEN LET a == last'.course[1]
               IN /\ chat_logs'.rows = chat_logs.rows + 1
                  /\ chat_logs'.newest.bot_reply = a.reply.ans
                  /\ chat_logs'.newest.source = a.reply.source
                  /\ chat_logs'.newest.score = a.reply.score
                  /\ chat_logs'.newest.department = a.route[1]
          ELSE chat_logs' = chat_logs ]_vars

\* C23 happens: a chat turn answered from the base dataset has left its log entry
C23_Witness ==
  /\ ChatRun /\ last.branch = "reply"
  /\ chat_logs.rows = 1
  /\ chat_logs.newest.source = "base"
  /\ chat_logs.newest.score = last.course[1].reply.score
  /\ chat_logs.newest.bot_reply = last.course[1].reply.ans

\* C24: when no credential is configured the pages never reach the router or the
\* cascade: a chat message that is no command is answered only with the fixed
\* 'OPENAI_API_KEY is not set' notice (no routing, no retrieval, no log entry), a
\* complaint submission creates no ticket and leaves active_ticket unchanged, and
\* language commands are still handled
C24_NoCredentialStopsPages ==
  [][ (PageTurn /\ ~OPENAI_API_KEY) =>
        LET text == last'.message.text
        IN /\ CalledIn(last') \subseteq { "handle_language_command" }
           /\ last'.requests = << >>
           /\ chat_logs' = chat_logs /\ dept_router' = dept_router
           /\ complaints' = complaints
           /\ session'.active_ticket = session.active_ticket
           /\ last'.op = "complaint_page" =>
                last'.appended = << >> /\ session' = session
           /\ (last'.op = "chat_page" /\ LanguagesNamed(text) = {}) =>
                /\ last'.appended =
                     << Message("user", Strip(text), << >>),
                        Message("assistant",
                                "OPENAI_API_KEY is not set. Please set your API key to "
                                \o "enable translation + multilingual support.", << >>) >>
                /\ session'.preferred_lang = session.preferred_lang
           /\ (last'.op = "chat_page" /\ LanguagesNamed(text) # {}) =>
                /\ session'.preferred_lang = FirstLanguage(text)
                /\ last'.appended[2].text = COMMAND_ACK[FirstLanguage(text)] ]_vars

\* C24 happens: without a credential, a chat message in Swahili got the notice
\* while a language was preferred
C24_Witness ==
  /\ ~OPENAI_API_KEY
  /\ ChatRun /\ last.branch = "no_key"
  /\ last.message.lang = "sw"
  /\ session.preferred_lang = "ar"
  /\ last.calls = << Call("handle_language_command", "hali ya mkopo wangu") >>

\* ------------------------------------------------------------------------
\* The answer cascade
\* ------------------------------------------------------------------------
Replied == last.op = "generate_reply"

Elems(seq) == { seq[i] : i \in 1..Len(seq) }

\* the similarity the custom tier finds for its best-matching FAQ of the department:
\* the largest cosine similarity between the query and the department's non-blank
\* questions, or -1 when there is none to compute
BestCustomSimilarity(query_en, dept, faqs) ==
  LET questions == NonBlank(Column(fetch_custom_faqs(faqs, dept), "question"))
      index == build_vector_index(questions)
  IN IF questions = << >> \/ ~index.ok THEN -1
     ELSE LET sims == cosine_similarity(Transform(index, normalize(query_en)), index.X)
          IN sims[ArgMax(sims)]

\* C1: whenever the best-matching custom FAQ of the routed department has similarity
\* >= 0.40 for the query, generate_reply returns source 'custom' (never 'base',
\* 'openai' or 'fallback'), whatever a base-dataset entry would score
C1_CustomHitWins ==
  (Replied /\ BestCustomSimilarity(last.query, last.dept, custom_faqs)
                >= SIM_THRESHOLD_CUSTOM)
    => (~last.result.raised /\ last.result.source = "custom")

\* C1 happens: a custom FAQ was returned although a base entry of the department
\* scores higher for the same query
C1_Witness ==
  /\ Replied
  /\ ~last.result.raised
  /\ last.result.source = "custom"
  /\ BestCustomSimilarity(last.query, last.dept, custom_faqs) >= SIM_THRESHOLD_CUSTOM
  /\ \E b \in answer_from_base(last.query, last.dept, base_df) :
       b.kind = "hit" /\ b.score > last.result.score

\* C2: the tiers are tried strictly in the order custom, base, fallback and each
\* short-circuits: the base tier is evaluated only after the custom tier returned no
\* hit, and the generative collaborator is invoked only after the custom and the base
\* tier both returned no hit
C2_TiersInOrder ==
  Replied =>
    LET r == last.result
        custom == answer_from_custom_first(last.query, last.dept, custom_faqs)
        base == answer_from_base(last.query, last.dept, base_df)
    IN /\ r.trace \in { << "custom" >>, << "custom", "base" >>,
                        << "custom", "base", "openai_fallback" >> }
       /\ "base" \in Elems(r.trace) => NoHit \in custom
       /\ ("openai_fallback" \in Elems(r.trace) \/ "answer" \in Elems(r.requests))
            => (NoHit \in custom /\ NoHit \in base)
       /\ (~r.raised /\ r.source = "custom") => r.trace = << "custom" >>
       /\ (~r.raised /\ r.source = "base") => r.trace = << "custom", "base" >>

\* C2 happens: the collaborator was asked after the custom tier (with FAQs to search)
\* and the base tier both found nothing
C2_Witness ==
  /\ Replied
  /\ fetch_custom_faqs(custom_faqs, last.dept) # << >>
  /\ last.result.trace = << "custom", "base", "openai_fallback" >>
  /\ last.result.requests = << "answer" >>

\* C3: for every non-blank query, department, custom-FAQ table, base dataset and
\* collaborator outcome, generate_reply returns without raising and its answer text
\* is non-empty
C3_AlwaysANonEmptyAnswer ==
  Replied => (~last.result.raised /\ last.result.ans # "")

ReachedFallback ==
  Replied /\ "openai_fallback" \in Elems(last.result.trace)

\* C4: openai_fallback never raises; when the collaborator answers it returns
\* (answer, 0.0, 'openai'), when the collaborator is unavailable or the call errors a
\* canned message with score 0.0 and source 'fallback'; so the source is always
\* openai or fallback and the score always 0.0
C4_FallbackResult ==
  ReachedFallback =>
    LET r == last.result
    IN /\ ~r.raised
       /\ r.score = 0
       /\ r.source \in { "openai", "fallback" }
       /\ (last.client /\ last.resp # "error")
            => (r.source = "openai" /\ r.ans = Strip(OutputText(last.resp)))
       /\ (~last.client \/ last.resp = "error")
            => (r.source = "fallback" /\ r.ans \in { NOT_CONFIDENT, FALLBACK_UNAVAILABLE })

\* C4 happens: the collaborator's request raised and the canned message came back
C4_Witness ==
  /\ ReachedFallback
  /\ last.client /\ last.resp = "error"
  /\ last.result.source = "fallback"
  /\ last.result.ans = FALLBACK_UNAVAILABLE

NoMatchNoCredential == ReachedFallback /\ ~OPENAI_API_KEY

\* C5 as stated: with no custom or base match and no credential configured, the final
\* answer is the canned fallback-unavailable string used for collaborator errors, with
\* source 'fallback' and score 0.0
C5_AsStated ==
  NoMatchNoCredential =>
    /\ last.result.ans = FALLBACK_UNAVAILABLE
    /\ last.result.source = "fallback"
    /\ last.result.score = 0

\* C5 amended: with no custom or base match and no credential configured, the final
\* answer is the canned not-confident string, with source 'fallback' and score 0.0,
\* and no request is sent to the collaborator
C5_NoCredentialAnswer ==
  NoMatchNoCredential =>
    /\ ~last.result.raised
    /\ last.result.ans = NOT_CONFIDENT
    /\ last.result.source = "fallback"
    /\ last.result.score = 0
    /\ last.result.requests = << >>

\* C5 happens: nothing matched and there is no credential
C5_Witness ==
  /\ NoMatchNoCredential
  /\ last.result.ans = NOT_CONFIDENT

\* the rows the base tier is to search: those of the department, or all of them when
\* the department has none
BaseScope(dept, base) ==
  IF \E i \in 1..Len(base) : base[i].category = dept
    THEN SelectSeq(base, LAMBDA r : r.category = dept)
    ELSE base

\* the similarities of the query to the questions of the rows in `scope`
ScopeSimilarities(query_en, scope) ==
  LET index == build_vector_index(Column(scope, "question"))
  IN cosine_similarity(Transform(index, normalize(query_en)), index.X)

BaseTierEvaluated == Replied /\ "base" \in Elems(last.result.trace)

\* C11: answer_from_base searches only the base rows whose category is the routed
\* department, or the entire base dataset when there is no such row; it returns
\* (answer, score, 'base') of a best-matching row exactly when the best similarity in
\* that scope is >= 0.35, and no hit otherwise
C11_BaseTierScopeAndThreshold ==
  BaseTierEvaluated =>
    LET r == last.result
        scope == BaseScope(last.dept, base_df)
        sims == ScopeSimilarities(last.query, scope)
        best == sims[ArgMax(sims)]
    IN /\ ~r.raised
       /\ best >= SIM_THRESHOLD_BASE
            => /\ r.source = "base" /\ r.score = best
               /\ r.trace = << "custom", "base" >>
               /\ last.out_lang = "en"
                    => \E i \in 1..Len(scope) : sims[i] = best /\ r.ans = scope[i].answer
       /\ best < SIM_THRESHOLD_BASE
            => /\ r.source # "base"
               /\ r.trace = << "custom", "base", "openai_fallback" >>

\* C11 happens: the department has no base row, and the answer of a row of another
\* category was returned from the entire dataset
C11_Witness ==
  /\ BaseTierEvaluated
  /\ \A i \in 1..Len(base_df) : base_df[i].category # last.dept
  /\ ~last.result.raised
  /\ last.result.source = "base"
  /\ last.result.score >= SIM_THRESHOLD_BASE
  /\ last.out_lang = "en"
  /\ \E i \in 1..Len(base_df) : last.result.ans = base_df[i].answer

\* the rows of `scope` that have a question to match
WithQuestion(scope) ==
  SelectSeq(scope, LAMBDA r : \E i \in 1..Len(r.question) : ~IsSpace(SubSeq(r.question, i, i)))

\* the answer and score are those of one entry of `scope` whose question has the
\* largest similarity to the query
AnswerOfBestEntry(query_en, scope, ans, score) ==
  LET entries == WithQuestion(scope)
      sims == ScopeSimilarities(query_en, entries)
  IN \E i \in 1..Len(entries) :
       /\ \A j \in 1..Len(entries) : sims[j] <= sims[i]
       /\ score = sims[i]
       /\ ans = entries[i].answer

\* C22: whenever the custom tier or the base tier accepts, the answer returned is
\* the answer of the very entry whose question achieved the reported best
\* similarity, all entries being taken from the routed department's scope, also
\* when some stored questions of that scope are blank (the answer is compared where
\* the output language is English, which leaves it untranslated)
C22_AnswerOfBestEntry ==
  (Replied /\ ~last.result.raised /\ last.out_lang = "en") =>
    /\ last.result.source = "custom"
         => AnswerOfBestEntry(last.query, StoredFor(last.dept),
                              last.result.ans, last.result.score)
    /\ last.result.source = "base"
         => AnswerOfBestEntry(last.query, BaseScope(last.dept, base_df),
                              last.result.ans, last.result.score)

\* the English answers a tier can accept: those of the rows it searches
TierAnswers(source, dept) ==
  IF source = "custom" THEN { r.answer : r \in Elems(StoredFor(dept)) }
  ELSE { r.answer : r \in Elems(BaseScope(dept, base_df)) }

\* what the collaborator's text becomes once the tokens of `text_en` are put back
Localized(text_en, resp) ==
  restore_placeholders(Strip(OutputText(resp)), protect_placeholders(text_en)[2])

\* C25: localization is applied per tier: an answer accepted by the custom or base
\* tier is passed through translate_from_english exactly once with the turn's output
\* language before being logged and returned, whereas the fallback tier's result
\* (generative answer or canned degraded message) is logged and returned without
\* any translation step, so the canned degraded messages are English whatever the
\* output language is
C25_LocalizationPerTier ==
  (Replied /\ ~last.result.raised) =>
    LET r == last.result
        asked == last.out_lang # "en" /\ last.client
        answers == TierAnswers(r.source, last.dept)
    IN /\ chat_logs.newest.bot_reply = r.ans
       /\ r.source \in { "custom", "base" } =>
            /\ r.requests = IF asked THEN << "translate" >> ELSE << >>
            /\ (~asked \/ last.resp = "error") => r.ans \in answers
            /\ (asked /\ last.resp # "error") =>
                 \E text_en \in answers : r.ans = Localized(text_en, last.resp)
       /\ r.source \in { "openai", "fallback" } =>
            /\ "translate" \notin Elems(r.requests)
            /\ r.source = "openai" => r.ans = Strip(OutputText(last.resp))
            /\ r.source = "fallback" =>
                 r.ans \in { "I'm not fully confident yet. Please rephrase or add more detail.",
                             "AI fallback is unavailable right now. I'll answer using SACCO FAQs." }

\* C25 happens: with Swahili as the output language, the fallback tier's canned
\* message was logged in English after the generative request failed
C25_Witness ==
  /\ Replied /\ ~last.result.raised
  /\ last.out_lang = "sw" /\ last.client /\ last.resp = "error"
  /\ last.result.source = "fallback"
  /\ last.result.requests = << "answer" >>
  /\ chat_logs.newest.bot_reply = FALLBACK_UNAVAILABLE

\* ------------------------------------------------------------------------
\* Routing
\* ------------------------------------------------------------------------
Routed == last.op = "route_department"

\* the department has a keyword that occurs in t
HasKeywordOf(dept, t) ==
  \E d \in 1..Len(DEPT_KEYWORDS) :
    /\ DEPT_KEYWORDS[d][1] = dept
    /\ \E k \in 1..Len(DEPT_KEYWORDS[d][2]) : Contains(t, DEPT_KEYWORDS[d][2][k])

\* C6: for every department D and every query whose normalized text contains a
\* keyword of D, route_department returns (D, 1.0, 'rule'), whatever the vector stage
\* would compute ('find atm' and 'nearest atm' give FIND, 'atm reversal' TRANSFER)
C6_KeywordDepartmentReturned ==
  Routed =>
    \A d \in Elems(DEPARTMENTS) :
      HasKeywordOf(d, normalize(last.text)) => last.result = << d, SCALE, "rule" >>

\* the order in which the rule stage is said to scan the departments
RULE_ORDER ==
  << "ATM", "CARD", "LOAN", "TRANSFER", "PASSWORD", "FEES", "FIND", "CONTACT", "ACCOUNT" >>

\* lowercased, no whitespace at either end, and single spaces as the only whitespace
IsNormalized(t) ==
  \A i \in 1..Len(t) :
    LET c == SubSeq(t, i, i)
    IN /\ c \notin CharsOf(UPPER)
       /\ IsSpace(c) => (c = " " /\ 1 < i /\ i < Len(t) /\ ~IsSpace(SubSeq(t, i + 1, i + 1)))

\* the query as the rule stage is said to read it: its words, lowercased, one space apart
RECURSIVE WordsOf(_, _, _)
WordsOf(s, i, cur) ==
  IF i > Len(s) THEN (IF cur = "" THEN << >> ELSE << cur >>)
  ELSE LET c == SubSeq(s, i, i)
       IN IF IsSpace(c) THEN (IF cur = "" THEN << >> ELSE << cur >>) \o WordsOf(s, i + 1, "")
          ELSE WordsOf(s, i + 1, cur \o LowerChar(c))

\* C7: the rule stage lowercases the query and collapses whitespace, then scans the
\* departments in the order ATM, CARD, LOAN, TRANSFER, PASSWORD, FEES, FIND, CONTACT,
\* ACCOUNT; when keywords of several departments occur, the earliest department in
\* that order is returned with score 1.0 and method 'rule'
C7_EarliestDepartmentWins ==
  Routed =>
    LET t == Join(WordsOf(last.text, 1, ""), " ")
    IN /\ normalize(last.text) = t
       /\ IsNormalized(t)
       /\ \A p \in 1..Len(RULE_ORDER) :
            (HasKeywordOf(RULE_ORDER[p], t)
               /\ \A e \in 1..(p - 1) : ~HasKeywordOf(RULE_ORDER[e], t))
              => last.result = << RULE_ORDER[p], SCALE, "rule" >>

\* C7 happens: a query in mixed case with keywords of two departments went to the
\* earlier one, and a keyword was found across a run of whitespace
C7_Witness ==
  /\ Routed
  /\ \/ /\ last.text # normalize(last.text)
        /\ HasKeywordOf("ATM", normalize(last.text))
        /\ HasKeywordOf("CARD", normalize(last.text))
        /\ last.result = << "ATM", SCALE, "rule" >>
     \/ /\ last.text = " Cash \t Withdrawal "
        /\ last.result = << "ATM", SCALE, "rule" >>

NoKeyword == Routed /\ \A d \in Elems(DEPARTMENTS) : ~HasKeywordOf(d, normalize(last.text))

\* the similarities of the query to the exemplars of the flattened DEPT_TRAIN list
ExemplarSimilarities(text_en) ==
  LET index == build_vector_index(dept_texts)
  IN cosine_similarity(Transform(index, normalize(text_en)), index.X)

\* C8: with no keyword match, route_department takes the first exemplar of maximum
\* similarity among all exemplars of the flattened DEPT_TRAIN list; if that similarity
\* is strictly below 0.25 it returns (CONTACT, best score, 'tfidf_lowconf'), otherwise
\* (0.25 included) that exemplar's department with the best score and method 'tfidf'
C8_FirstBestExemplar ==
  NoKeyword =>
    LET sims == ExemplarSimilarities(last.text)
    IN /\ Len(sims) = Len(dept_labels)
       /\ \E i \in 1..Len(sims) :
            /\ \A j \in 1..Len(sims) : sims[j] <= sims[i]
            /\ \A j \in 1..(i - 1) : sims[j] < sims[i]
            /\ last.result = IF sims[i] < SIM_THRESHOLD_ROUTE
                               THEN << "CONTACT", sims[i], "tfidf_lowconf" >>
                               ELSE << dept_labels[i], sims[i], "tfidf" >>

\* C8 happens: exemplars of two departments share the maximum similarity and the
\* department of the first of them was returned
C8_Witness ==
  /\ NoKeyword
  /\ last.result[3] = "tfidf"
  /\ LET sims == ExemplarSimilarities(last.text)
     IN \E i, j \in 1..Len(sims) :
          /\ i < j
          /\ sims[i] = last.result[2] /\ sims[j] = last.result[2]
          /\ dept_labels[i] = last.result[1] /\ dept_labels[j] # last.result[1]

\* C9: route_department is total: for every text it returns a department of
\* DEPARTMENTS, a method among rule, tfidf and tfidf_lowconf, and a score in [0, 1]
C9_DecisionInRange ==
  Routed =>
    /\ last.result[1] \in Elems(DEPARTMENTS)
    /\ last.result[3] \in { "rule", "tfidf", "tfidf_lowconf" }
    /\ 0 <= last.result[2] /\ last.result[2] <= SCALE

====
